---- MODULE Spec2Model ----
(***************************************************************************)
(* Model of the VJP rule library                                           *)
(*   src/paddle/fluid/primitive/rule/vjp/details.h                         *)
(*                                                                         *)
(* A rule is a pure function from forward tensors, static attributes and   *)
(* nullable output slots to the gradients written into the slots.  The     *)
(* model has two layers.                                                   *)
(*                                                                         *)
(*  - The trace layer: every rule is an operator that returns the          *)
(*    sequence of tensor primitives and slot writes the rule executes for  *)
(*    a given call, following the rule's control flow (null checks, dtype  *)
(*    tests, shape tests).  The written value is a term over the inputs.   *)
(*  - The value layer: selected rules are evaluated on small concrete      *)
(*    tensors (shape + row-major data).                                    *)
(*                                                                         *)
(* One invocation is one step: idle -> done.                               *)
(***************************************************************************)
EXTENDS Integers, Sequences, FiniteSets, TLC

VARIABLES
  pc,       \* "idle" before the invocation, "done" after it
  rule,     \* name of the rule invoked ("none" while idle)
  args,     \* the call's forward inputs and static attributes
  slots,    \* the output-slot parameters of the rule's signature
  req,      \* the slots passed non-null (a subset of slots)
  trace,    \* trace layer: primitives executed and slot writes, in order
  outcome,  \* "none", "returned", or the outcome of a null-slot dereference
  res       \* value layer: slot -> tensor written (<<>> when unused)

vars == <<pc, rule, args, slots, req, trace, outcome, res>>

(***************************************************************************)
(* Bounds of the trace layer.                                              *)
(***************************************************************************)
MaxRank == 2      \* ranks 0..MaxRank
MaxExtent == 2    \* extents 1..MaxExtent
MaxInputs == 2    \* number of tensors given to concat_grad / split_grad

(***************************************************************************)
(* Element datatypes (phi::DataType).                                      *)
(***************************************************************************)
DTypes == {"float16", "bfloat16", "float32", "float64"}

\* Faulty variant of IsReduced: bfloat16 is forgotten.
IsReducedHalfOnly(dt) == dt = "float16"

\* x.dtype() == FLOAT16 || x.dtype() == BFLOAT16
IsReduced(dt) == dt \in {"float16", "bfloat16"}

(***************************************************************************)
(* Shapes.                                                                 *)
(***************************************************************************)
ShapesOfRank(n) == [1..n -> 1..MaxExtent]

Shapes == UNION {ShapesOfRank(n) : n \in 0..MaxRank}

Max2(a, b) == IF a >= b THEN a ELSE b

\* dims padded on the left with size-1 axes up to rank n
PadLeft(d, n) == [i \in 1..n |-> IF i <= n - Len(d) THEN 1 ELSE d[i - (n - Len(d))]]

\* two shapes are broadcast-compatible if, aligned at the trailing
\* dimension, every axis pair is equal or one side is 1
Compatible(xd, yd) ==
  LET n == Max2(Len(xd), Len(yd))
      px == PadLeft(xd, n)
      py == PadLeft(yd, n)
  IN \A i \in 1..n : px[i] = py[i] \/ px[i] = 1 \/ py[i] = 1

\* the broadcast shape of two compatible shapes
BroadcastTwoDims(xd, yd) ==
  LET n == Max2(Len(xd), Len(yd))
      px == PadLeft(xd, n)
      py == PadLeft(yd, n)
  IN [i \in 1..n |-> Max2(px[i], py[i])]

\* ascending sequence of the members of a finite set of integers
RECURSIVE SortedSeq(_)
SortedSeq(S) ==
  IF S = {} THEN <<>>
  ELSE LET m == CHOOSE x \in S : \A y \in S : x <= y
       IN <<m>> \o SortedSeq(S \ {m})

\* axes (0-based) of a tensor shaped dout_dims to sum over to get back to
\* in_dims: every left-padded leading axis and every axis where in_dims has
\* extent 1 and dout_dims has extent > 1
get_reduce_dims_from_out(dout_dims, in_dims) ==
  LET bat == Len(dout_dims) - Len(in_dims)
  IN SortedSeq({i \in 0..(Len(dout_dims) - 1) :
                  \/ i < bat
                  \/ (i >= bat /\ in_dims[i - bat + 1] = 1 /\ dout_dims[i + 1] > 1)})

get_reduce_dims(x_dims, y_dims) ==
  get_reduce_dims_from_out(BroadcastTwoDims(x_dims, y_dims), x_dims)

(***************************************************************************)
(* Trace events.                                                           *)
(*   op    : the primitive, or "set_output" / "by_pass" for a slot write   *)
(*   blk   : the slot whose `if (slot)` block holds the statement, "" for  *)
(*           a statement outside every slot guard                          *)
(*   slot  : the slot written ("" for a primitive)                         *)
(*   val   : the term written ("" for a primitive)                         *)
(*   feeds : the slots whose written term uses the primitive's result      *)
(*   dts   : the datatypes of the primitive's tensor operands              *)
(***************************************************************************)
Prim(op, blk, feeds, dts) ==
  [op |-> op, blk |-> blk, slot |-> "", val |-> "", feeds |-> feeds, dts |-> dts]

Ops(names, blk, feeds, dts) ==
  [i \in 1..Len(names) |-> Prim(names[i], blk, feeds, dts)]

set_output(blk, slot, val) ==
  [op |-> "set_output", blk |-> blk, slot |-> slot, val |-> val,
   feeds |-> {slot}, dts |-> {}]

by_pass(blk, slot, val) ==
  [op |-> "by_pass", blk |-> blk, slot |-> slot, val |-> val,
   feeds |-> {slot}, dts |-> {}]

\* set_output of a tensor whose dtype dt the model follows: the write's dts
\* holds the dtype of the written tensor
set_output_typed(blk, slot, val, dt) ==
  [set_output(blk, slot, val) EXCEPT !.dts = {dt}]

\* dtype of the result of an arithmetic primitive on operands of dtypes S:
\* the widest of them
ResultDType(S) ==
  IF "float64" \in S THEN "float64"
  ELSE IF "float32" \in S THEN "float32"
  ELSE CHOOSE d \in S : TRUE

IsWrite(e) == e.op \in {"set_output", "by_pass"}

\* number of writes into slot s
RECURSIVE Writes(_, _)
Writes(t, s) ==
  IF t = <<>> THEN 0
  ELSE (IF IsWrite(Head(t)) /\ Head(t).slot = s THEN 1 ELSE 0) + Writes(Tail(t), s)

\* the terms written into slot s, in order
RECURSIVE Written(_, _)
Written(t, s) ==
  IF t = <<>> THEN <<>>
  ELSE (IF IsWrite(Head(t)) /\ Head(t).slot = s THEN <<Head(t).val>> ELSE <<>>)
       \o Written(Tail(t), s)

\* Term constructors.
Bin(f, a, b) == f \o "(" \o a \o "," \o b \o ")"
Un(f, a) == f \o "(" \o a \o ")"


\* The "Maybe need reduce here" tail shared by the binary rules: the
\* contribution `term` is written directly when the two input shapes are
\* equal or the reduce-axis set is empty, otherwise summed over the reduce
\* axes, reshaped to the input's dims and written with set_output.
\* `direct` is the write used on the two direct paths.
\* Faulty variant of ReduceBack: the direct write is not in an else branch, so
\* the reduce-and-reshape path falls through to it.
ReduceBackFallThrough(slot, term, own_dims, other_dims, direct, dt) ==
  LET w == IF direct = "by_pass" THEN by_pass(slot, slot, term)
           ELSE set_output(slot, slot, term)
  IN IF own_dims # other_dims
     THEN LET reduce_dim == get_reduce_dims(own_dims, other_dims)
          IN IF Len(reduce_dim) = 0
             THEN <<w>>
             ELSE Ops(<<"sum", "reshape">>, slot, {slot}, {dt})
                  \o <<set_output(slot, slot,
                         Bin("reshape", Bin("sum", term, ToString(reduce_dim)),
                             ToString(own_dims)))>>
                  \o <<w>>
     ELSE <<w>>

ReduceBack(slot, term, own_dims, other_dims, direct, dt) ==
  LET w == IF direct = "by_pass" THEN by_pass(slot, slot, term)
           ELSE set_output(slot, slot, term)
  IN IF own_dims # other_dims
     THEN LET reduce_dim == get_reduce_dims(own_dims, other_dims)
          IN IF Len(reduce_dim) = 0
             THEN <<w>>
             ELSE Ops(<<"sum", "reshape">>, slot, {slot}, {dt})
                  \o <<set_output(slot, slot,
                         Bin("reshape", Bin("sum", term, ToString(reduce_dim)),
                             ToString(own_dims)))>>
     ELSE <<w>>

\* The tail of multiply_grad and expand_grad: the reduce axes come from the
\* unreduced contribution's dims, and the reshape happens only when the
\* summed tensor's rank differs from the input's rank.
ReduceFromOut(slot, term, unreduced_dims, own_dims, direct, dt) ==
  LET w == IF direct = "by_pass" THEN by_pass(slot, slot, term)
           ELSE set_output(slot, slot, term)
  IN IF unreduced_dims # own_dims
     THEN LET axes == get_reduce_dims_from_out(unreduced_dims, own_dims)
              summed == Bin("sum", term, ToString(axes))
          IN IF Len(axes) = 0
             THEN <<w>>
             ELSE IF Len(unreduced_dims) - Len(axes) # Len(own_dims)
                  THEN Ops(<<"sum", "reshape">>, slot, {slot}, {dt})
                       \o <<set_output(slot, slot,
                              Bin("reshape", summed, ToString(own_dims)))>>
                  ELSE Ops(<<"sum">>, slot, {slot}, {dt})
                       \o <<set_output(slot, slot, summed)>>
     ELSE <<w>>

(***************************************************************************)
(* The rules, in source order.  a: the call's inputs, r: the non-null      *)
(* slots.  Each returns the trace of the call.                             *)
(***************************************************************************)
abs_grad(a, r) ==
  IF "x_grad" \in r
  THEN Ops(<<"sign", "multiply">>, "x_grad", {"x_grad"}, {a.dt})
       \o <<set_output("x_grad", "x_grad", "mul(out_grad,sign(x))")>>
  ELSE <<>>

assign_grad(a, r) ==
  IF "x_grad" \in r
  THEN <<by_pass("x_grad", "x_grad", "out_grad")>>
  ELSE <<>>

cumsum_grad(a, r) ==
  IF "x_grad" \in r
  THEN Ops(<<"cumsum", "reshape">>, "x_grad", {"x_grad"}, {a.dt})
       \o <<set_output("x_grad", "x_grad",
              Bin("reshape", "cumsum(out_grad,!reverse)", ToString(a.xd)))>>
  ELSE <<>>

divide_grad(a, r) ==
  (IF "dy" \in r
   THEN Ops(<<"pow", "divide", "neg", "multiply">>, "dy", {"dy"}, {a.dt})
        \o ReduceBack("dy", "mul(neg(div(x,pow(y,2))),out_grad)",
                      a.yd, a.xd, "set_output", a.dt)
   ELSE <<>>)
  \o
  (IF "dx" \in r
   THEN Ops(<<"full", "divide", "multiply">>, "dx", {"dx"}, {a.dt})
        \o ReduceBack("dx", "mul(div(full(1),y),out_grad)",
                      a.xd, a.yd, "set_output", a.dt)
   ELSE <<>>)

floor_grad(a, r) ==
  IF "x_grad" \in r
  THEN Ops(<<"full">>, "x_grad", {"x_grad"}, {a.dt})
       \o <<set_output("x_grad", "x_grad", "full(0)")>>
  ELSE <<>>

\* Faulty variant of ReduceAll: the value the caller passed is honoured.
ReduceAllHonoured(reduce_all_in, axis_size, x_dim_size) ==
  reduce_all_in \/ axis_size = 0 \/ axis_size = x_dim_size

\* reduce_all as the reduction rules recompute it: the incoming value is
\* overwritten with false before the test
ReduceAll(reduce_all_in, axis_size, x_dim_size) ==
  LET reduce_all == FALSE
  IN reduce_all \/ axis_size = 0 \/ axis_size = x_dim_size

sum_grad(a, r) ==
  IF "x_grad" \notin r THEN <<>>
  ELSE LET x_dim_size == Len(a.xd)
       IN (IF x_dim_size = 1
           THEN Ops(<<"expand">>, "x_grad", {"x_grad"}, {a.dt})
           ELSE IF ~a.keepdim
                THEN Ops(<<"reshape", "expand">>, "x_grad", {"x_grad"}, {a.dt})
                ELSE Ops(<<"expand">>, "x_grad", {"x_grad"}, {a.dt}))
          \o <<set_output("x_grad", "x_grad",
                 IF x_dim_size # 1 /\ ~a.keepdim
                 THEN "expand(reshape(out_grad,unsqueeze_dims),x_dim)"
                 ELSE "expand(out_grad,x_dim)")>>

\* the primitives of the gelu formula, tanh approximation or exact erf
GeluFormula(approximate) ==
  IF approximate
  THEN <<"multiply", "multiply", "multiply", "add", "multiply", "tanh",
         "scale", "scale", "scale", "multiply", "scale", "multiply",
         "multiply", "scale", "multiply", "multiply", "multiply", "add",
         "multiply">>
  ELSE <<"multiply", "erf", "scale", "scale", "multiply", "scale", "exp",
         "multiply", "multiply", "add", "multiply">>

gelu_grad(a, r) ==
  IF "x_grad" \notin r THEN <<>>
  ELSE LET f == IF a.approximate THEN "gelu_tanh_grad" ELSE "gelu_erf_grad"
       IN IF IsReduced(a.dt)
          THEN Ops(<<"cast", "cast">>, "x_grad", {"x_grad"}, {a.dt})
               \o Ops(GeluFormula(a.approximate), "x_grad", {"x_grad"}, {"float32"})
               \o Ops(<<"cast">>, "x_grad", {"x_grad"}, {"float32"})
               \o <<set_output_typed("x_grad", "x_grad",
                      Bin("cast", Bin(f, "cast(x,float32)", "cast(out_grad,float32)"),
                          a.dt),
                      a.dt)>>                                   \* cast to x.type()
          ELSE Ops(GeluFormula(a.approximate), "x_grad", {"x_grad"}, {a.dt})
               \o <<set_output_typed("x_grad", "x_grad", Bin(f, "x", "out_grad"),
                                     ResultDType({a.dt}))>>

reshape_grad(a, r) ==
  IF "grad_x" \in r
  THEN Ops(<<"reshape">>, "grad_x", {"grad_x"}, {a.dt})
       \o <<set_output("grad_x", "grad_x", Bin("reshape", "grad_out", ToString(a.xd)))>>
  ELSE <<>>

roll_grad(a, r) ==
  IF "x_grad" \in r
  THEN Ops(<<"roll">>, "x_grad", {"x_grad"}, {a.dt})
       \o <<set_output("x_grad", "x_grad", "roll(out_grad,neg(shifts),axis)")>>
  ELSE <<>>

scatter_grad(a, r) ==
  (IF "x_grad" \in r
   THEN Ops(<<"full", "scatter">>, "x_grad", {"x_grad"}, {a.dt})
        \o <<set_output("x_grad", "x_grad", "scatter(out_grad,index,full(0))")>>
   ELSE <<>>)
  \o
  (IF "updates_grad" \in r
   THEN Ops(<<"gather">>, "updates_grad", {"updates_grad"}, {a.dt})
        \o <<set_output("updates_grad", "updates_grad", "gather(out_grad,index,0)")>>
   ELSE <<>>)

scatter_nd_add_grad(a, r) ==
  (IF "x_grad" \in r
   THEN <<by_pass("x_grad", "x_grad", "out_grad")>>
   ELSE <<>>)
  \o
  (IF "updates_grad" \in r
   THEN Ops(<<"gather_nd">>, "updates_grad", {"updates_grad"}, {a.dt})
        \o <<set_output("updates_grad", "updates_grad", "gather_nd(out_grad,index)")>>
   ELSE <<>>)

\* no test of x_grad: the formula and the write run for every call
sin_grad(a, r) ==
  Ops(<<"cos", "multiply">>, "", {"x_grad"}, {a.dt})
  \o <<set_output("", "x_grad", "mul(cos(x),out_grad)")>>

\* no test of x_grad: the formula and the write run for every call
cos_grad(a, r) ==
  Ops(<<"sin", "neg", "multiply">>, "", {"x_grad"}, {a.dt})
  \o <<set_output("", "x_grad", "mul(neg(sin(x)),out_grad)")>>

tanh_grad(a, r) ==
  IF "grad_x" \notin r THEN <<>>
  ELSE Ops(<<"multiply", "subtract", "multiply">>, "grad_x", {"grad_x"}, {a.dt})
       \o <<set_output("grad_x", "grad_x", "mul(grad_out,sub(1,mul(out,out)))")>>

\* name of the i-th (0-based) entry of the x_grad vector of concat_grad
XGradSlot(i) == "x_grad[" \o ToString(i) \o "]"

\* a.n: the number of inputs.  split runs before any slot is tested.
concat_grad(a, r) ==
  LET all == {XGradSlot(i) : i \in 0..(a.n - 1)}
      wr == [i \in 1..a.n |->
               IF XGradSlot(i - 1) \in r
               THEN <<set_output(XGradSlot(i - 1), XGradSlot(i - 1),
                        Bin("split", "out_grad", ToString(i - 1)))>>
               ELSE <<>>]
      RECURSIVE Flat(_)
      Flat(k) == IF k > a.n THEN <<>> ELSE wr[k] \o Flat(k + 1)
  IN Ops(<<"split">>, "", all, {a.dt}) \o Flat(1)

split_grad(a, r) ==
  IF "x_grad" \in r
  THEN Ops(<<"concat">>, "x_grad", {"x_grad"}, {a.dt})
       \o <<set_output("x_grad", "x_grad", "concat(out_grad,axis)")>>
  ELSE <<>>

cast_grad(a, r) ==
  IF "x_grad" \in r
  THEN Ops(<<"cast">>, "x_grad", {"x_grad"}, {a.dt})
       \o <<set_output("x_grad", "x_grad", Bin("cast", "out_grad", a.dt))>>
  ELSE <<>>

add_grad(a, r) ==
  (IF "dy" \in r
   THEN ReduceBack("dy", "out_grad", a.yd, a.xd, "by_pass", a.dt)
   ELSE <<>>)
  \o
  (IF "dx" \in r
   THEN ReduceBack("dx", "out_grad", a.xd, a.yd, "by_pass", a.dt)
   ELSE <<>>)

subtract_grad(a, r) ==
  (IF "dy" \in r
   THEN Ops(<<"scale">>, "dy", {"dy"}, {a.dt})
        \o ReduceBack("dy", "scale(out_grad,-1)", a.yd, a.xd, "by_pass", a.dt)
   ELSE <<>>)
  \o
  (IF "dx" \in r
   THEN ReduceBack("dx", "out_grad", a.xd, a.yd, "by_pass", a.dt)
   ELSE <<>>)

multiply_grad(a, r) ==
  LET unreduce_dims == BroadcastTwoDims(BroadcastTwoDims(a.xd, a.yd), a.yd)
      unreduce_dims_y == BroadcastTwoDims(BroadcastTwoDims(a.xd, a.yd), a.xd)
  IN (IF "x_grad" \in r
      THEN Ops(<<"multiply">>, "x_grad", {"x_grad"}, {a.dt})
           \o ReduceFromOut("x_grad", "mul(out_grad,y)", unreduce_dims, a.xd,
                            "set_output", a.dt)
      ELSE <<>>)
     \o
     (IF "y_grad" \in r
      THEN Ops(<<"multiply">>, "y_grad", {"y_grad"}, {a.dt})
           \o ReduceFromOut("y_grad", "mul(out_grad,x)", unreduce_dims_y, a.yd,
                            "set_output", a.dt)
      ELSE <<>>)

elementwise_pow_grad(a, r) ==
  (IF "dy" \in r
   THEN Ops(<<"log", "elementwise_pow", "multiply", "multiply">>, "dy", {"dy"}, {a.dt})
        \o ReduceBack("dy", "mul(mul(log(x),pow(x,y)),out_grad)",
                      a.yd, a.xd, "set_output", a.dt)
   ELSE <<>>)
  \o
  (IF "dx" \in r
   THEN Ops(<<"subtract", "elementwise_pow", "multiply", "multiply">>,
            "dx", {"dx"}, {a.dt})
        \o ReduceBack("dx", "mul(mul(y,pow(x,sub(y,1))),out_grad)",
                      a.xd, a.yd, "set_output", a.dt)
   ELSE <<>>)

\* The else branch taken when the optional forward tensor of an affine slot
\* is absent: `slot = nullptr` clears the rule's local copy of the pointer.
\* Nothing is computed and the caller's tensor is not written.
\* Faulty variant of AbsentAffine: the slot is filled with an empty tensor.
AbsentAffineWritesEmpty(slot) == <<set_output(slot, slot, "Tensor()")>>

AbsentAffine(slot) == <<>>

\* a.dt: x.dtype(); a.scale / a.bias: presence of the optional tensors;
\* a.sdt / a.bdt: their dtypes; a.mdt: dtype of mean and variance.
layer_norm_grad(a, r) ==
  LET XS == {"x_grad", "scale_grad"}
      ALL == {"x_grad", "scale_grad", "bias_grad"}
      ct == IF IsReduced(a.dt) THEN "float32" ELSE a.dt   \* x_cast.dtype()
      sct == IF IsReduced(a.dt) THEN "float32" ELSE a.sdt \* scale_cast.dtype()
      Cast(t) == IF IsReduced(a.dt) THEN Bin("cast", t, "float32") ELSE t
      x_cast == Cast("reshape(x)")
      out_grad_cast == Cast("reshape(out_grad)")
      scale_cast == Cast("reshape(scale)")
      x_sub_mean == Bin("sub", x_cast, "reshape(mean)")
      tmp == "div(1,add(reshape(variance),epsilon))"
      sqrt_var_1 == Bin("pow", tmp, "full(0.5)")
      x_sub_mean_mul_sqrt_var_1 == Bin("mul", x_sub_mean, sqrt_var_1)
      out_grad_scale == IF a.scale THEN Bin("mul", out_grad_cast, scale_cast)
                        ELSE out_grad_cast
      dx_end == Bin("mul", sqrt_var_1, out_grad_scale)
      d_mean == Un("sum1", dx_end)
      d_std == Bin("mul", Un("sum1", Bin("mul", Bin("mul", tmp, x_sub_mean),
                                          out_grad_scale)),
                   x_sub_mean_mul_sqrt_var_1)
      x_grad_tmp == Un("reshape", Bin("sub", dx_end,
                          Bin("mul", "div(1,shape_2)", Bin("add", d_mean, d_std))))
      x_grad_val == IF IsReduced(a.dt) THEN Bin("cast", x_grad_tmp, a.dt)
                    ELSE x_grad_tmp
      scale_grad_tmp == Un("reshape",
                           Un("sum0", Bin("mul", x_sub_mean_mul_sqrt_var_1,
                                          out_grad_cast)))
      scale_grad_val == IF IsReduced(a.sdt) THEN Bin("cast", scale_grad_tmp, a.sdt)
                        ELSE scale_grad_tmp
      bias_grad_tmp == Un("reshape", Un("sum0", out_grad_cast))
      bias_grad_val == IF IsReduced(a.bdt) THEN Bin("cast", bias_grad_tmp, a.bdt)
                       ELSE bias_grad_tmp
  IN \* lines 591-600: reshapes, outside every slot guard
     Ops(<<"reshape">>, "", XS, {a.dt})
     \o Ops(<<"reshape">>, "", ALL, {a.dt})
     \o Ops(<<"reshape", "reshape">>, "", XS, {a.mdt})
     \o (IF a.scale THEN Ops(<<"reshape">>, "", {"x_grad"}, {a.sdt}) ELSE <<>>)
     \* lines 603-610: promotion
     \o (IF IsReduced(a.dt)
         THEN Ops(<<"cast">>, "", XS, {a.dt})
              \o Ops(<<"cast">>, "", ALL, {a.dt})
              \o (IF a.scale THEN Ops(<<"cast">>, "", {"x_grad"}, {a.sdt}) ELSE <<>>)
         ELSE <<>>)
     \* lines 612-617: shared intermediates
     \o Ops(<<"subtract">>, "", XS, {ct, a.mdt})
     \o Ops(<<"add", "divide", "full", "elementwise_pow">>, "", XS, {a.mdt})
     \o Ops(<<"multiply">>, "", XS, {ct, a.mdt})
     \* lines 619-643
     \o (IF "x_grad" \in r
         THEN (IF a.scale
               THEN Ops(<<"multiply">>, "x_grad", {"x_grad"}, {ct, sct})
               ELSE <<>>)
              \o Ops(<<"multiply", "sum", "multiply", "multiply", "sum",
                       "multiply", "add", "multiply", "subtract">>,
                     "x_grad", {"x_grad"},
                     {ct, a.mdt} \cup (IF a.scale THEN {sct} ELSE {}))
              \o Ops(<<"reshape">>, "x_grad", {"x_grad"}, {ct})
              \o (IF IsReduced(a.dt)
                  THEN Ops(<<"cast">>, "x_grad", {"x_grad"}, {ct})
                  ELSE <<>>)
              \o <<set_output_typed("x_grad", "x_grad", x_grad_val,
                     IF IsReduced(a.dt) THEN a.dt               \* cast to x.dtype()
                     ELSE ResultDType({ct, a.mdt}
                                      \cup (IF a.scale THEN {sct} ELSE {})))>>
         ELSE <<>>)
     \* lines 645-659: without scale the local pointer is cleared, nothing else
     \o (IF "scale_grad" \in r
         THEN IF a.scale
              THEN Ops(<<"multiply", "sum">>, "scale_grad", {"scale_grad"},
                       {ct, a.mdt})
                   \o Ops(<<"reshape">>, "scale_grad", {"scale_grad"}, {ct})
                   \o (IF IsReduced(a.sdt)
                       THEN Ops(<<"cast">>, "scale_grad", {"scale_grad"}, {ct})
                       ELSE <<>>)
                   \o <<set_output("scale_grad", "scale_grad", scale_grad_val)>>
              ELSE AbsentAffine("scale_grad")
         ELSE <<>>)
     \* lines 661-674
     \o (IF "bias_grad" \in r
         THEN IF a.bias
              THEN Ops(<<"sum", "reshape">>, "bias_grad", {"bias_grad"}, {ct})
                   \o (IF IsReduced(a.bdt)
                       THEN Ops(<<"cast">>, "bias_grad", {"bias_grad"}, {ct})
                       ELSE <<>>)
                   \o <<set_output("bias_grad", "bias_grad", bias_grad_val)>>
              ELSE AbsentAffine("bias_grad")
         ELSE <<>>)

\* a.is_test, a.mode, a.p_is_one (p.to<float>() == 1.0f)
dropout_grad(a, r) ==
  IF "x_grad" \notin r THEN <<>>
  ELSE IF a.is_test
       THEN IF a.mode = "upscale_in_train"
            THEN <<by_pass("x_grad", "x_grad", "out_grad")>>
            ELSE Ops(<<"multiply">>, "x_grad", {"x_grad"}, {a.dt})
                 \o <<set_output("x_grad", "x_grad", "mul(out_grad,sub(1,p))")>>
       ELSE IF a.mode = "upscale_in_train"
            THEN IF a.p_is_one
                 THEN Ops(<<"scale">>, "x_grad", {"x_grad"}, {a.dt})
                      \o <<set_output("x_grad", "x_grad", "scale(out_grad,0)")>>
                 ELSE Ops(<<"cast", "multiply", "scale">>, "x_grad", {"x_grad"}, {a.dt})
                      \o <<set_output("x_grad", "x_grad",
                             "scale(mul(out_grad,cast(mask)),div(1,sub(1,p)))")>>
            ELSE Ops(<<"cast", "multiply">>, "x_grad", {"x_grad"}, {a.dt})
                 \o <<set_output("x_grad", "x_grad", "mul(out_grad,cast(mask))")>>

transpose_grad(a, r) ==
  IF "grad_x" \in r
  THEN Ops(<<"transpose">>, "grad_x", {"grad_x"}, {a.dt})
       \o <<set_output("grad_x", "grad_x", "transpose(grad_out,reverse_perm)")>>
  ELSE <<>>

erf_grad(a, r) ==
  IF "x_grad" \in r
  THEN Ops(<<"full", "full", "multiply", "multiply", "exp", "multiply", "multiply">>,
           "x_grad", {"x_grad"}, {a.dt})
       \o <<set_output("x_grad", "x_grad",
              "mul(out_grad,mul(full(2/sqrt(pi)),exp(mul(mul(full(-1),x),x))))")>>
  ELSE <<>>

\* a.xd: x.dims(); a.yd: the expand target shape
expand_grad(a, r) ==
  IF "x_grad" \in r
  THEN IF a.yd # a.xd
       THEN LET axes == get_reduce_dims(a.xd, a.yd)
                reduced == Bin("sum", "out_grad", ToString(axes))
            IN IF Len(axes) = 0
               THEN <<by_pass("x_grad", "x_grad", "out_grad")>>
               ELSE IF Len(a.yd) - Len(axes) # Len(a.xd)
                    THEN Ops(<<"sum", "reshape">>, "x_grad", {"x_grad"}, {a.dt})
                         \o <<set_output("x_grad", "x_grad",
                                Bin("reshape", reduced, ToString(a.xd)))>>
                    ELSE Ops(<<"sum">>, "x_grad", {"x_grad"}, {a.dt})
                         \o <<set_output("x_grad", "x_grad", reduced)>>
       ELSE <<by_pass("x_grad", "x_grad", "out_grad")>>
  ELSE <<>>

log_grad(a, r) ==
  IF "x_grad" \in r
  THEN Ops(<<"divide">>, "x_grad", {"x_grad"}, {a.dt})
       \o <<set_output("x_grad", "x_grad", "div(out_grad,x)")>>
  ELSE <<>>

exp_grad(a, r) ==
  IF "x_grad" \in r
  THEN IF IsReduced(a.dt)
       THEN Ops(<<"cast", "cast">>, "x_grad", {"x_grad"}, {a.dt})
            \o Ops(<<"multiply", "cast">>, "x_grad", {"x_grad"}, {"float32"})
            \o <<set_output_typed("x_grad", "x_grad",
                   Bin("cast", "mul(cast(out,float32),cast(out_grad,float32))", a.dt),
                   a.dt)>>                                      \* cast to out.dtype()
       ELSE Ops(<<"multiply">>, "x_grad", {"x_grad"}, {a.dt})
            \o <<set_output_typed("x_grad", "x_grad", "mul(out_grad,out)",
                                  ResultDType({a.dt}))>>
  ELSE <<>>

sqrt_grad(a, r) ==
  IF "x_grad" \in r
  THEN Ops(<<"divide", "multiply">>, "x_grad", {"x_grad"}, {a.dt})
       \o <<set_output("x_grad", "x_grad", "mul(div(0.5,out),out_grad)")>>
  ELSE <<>>

\* sigmoid = 1/(1+exp(-x)); res = out_grad * sigmoid * (1 + x - out)
SiluFormula ==
  <<"neg", "exp", "add", "divide", "multiply", "add", "subtract", "multiply">>

silu_grad(a, r) ==
  IF "x_grad" \in r
  THEN LET need_cast == IsReduced(a.dt)
       IN IF need_cast
          THEN Ops(<<"cast", "cast", "cast">>, "x_grad", {"x_grad"}, {a.dt})
               \o Ops(SiluFormula, "x_grad", {"x_grad"}, {"float32"})
               \o Ops(<<"cast">>, "x_grad", {"x_grad"}, {"float32"})
               \o <<set_output_typed("x_grad", "x_grad",
                      Bin("cast", "silu_grad(cast(x),cast(out),cast(out_grad))", a.dt),
                      a.dt)>>                                   \* cast to org_dtype
          ELSE Ops(SiluFormula, "x_grad", {"x_grad"}, {a.dt})
               \o <<set_output_typed("x_grad", "x_grad", "silu_grad(x,out,out_grad)",
                                     ResultDType({a.dt}))>>
  ELSE <<>>

\* a.xd: out_grad.dims() (= out.dims()); a.axis: the softmax axis
softmax_grad(a, r) ==
  IF "x_grad" \in r
  THEN IF Len(a.xd) > 0
       THEN LET ax == IF a.axis >= 0 THEN a.axis ELSE Len(a.xd) + a.axis
            IN Ops(<<"multiply", "sum", "multiply", "subtract">>,
                   "x_grad", {"x_grad"}, {a.dt})
               \o <<set_output("x_grad", "x_grad",
                      Bin("sub", "mul(out_grad,out)",
                          Bin("mul", "out",
                              Bin("sum", "mul(out_grad,out)", ToString(ax)))))>>
       ELSE Ops(<<"multiply">>, "x_grad", {"x_grad"}, {a.dt})
            \o <<set_output("x_grad", "x_grad", "mul(out_grad,0)")>>
  ELSE <<>>

maximum_grad(a, r) ==
  (IF "x_grad" \in r
   THEN Ops(<<"greater_than", "cast", "multiply">>, "x_grad", {"x_grad"}, {a.dt})
        \o ReduceBack("x_grad", "mul(out_grad,cast(greater_than(x,y)))",
                      a.xd, a.yd, "set_output", a.dt)
   ELSE <<>>)
  \o
  (IF "y_grad" \in r
   THEN Ops(<<"less_equal", "cast", "multiply">>, "y_grad", {"y_grad"}, {a.dt})
        \o ReduceBack("y_grad", "mul(out_grad,cast(less_equal(x,y)))",
                      a.yd, a.xd, "set_output", a.dt)
   ELSE <<>>)

relu_grad(a, r) ==
  IF "x_grad" \in r
  THEN Ops(<<"full", "greater_than", "full", "where">>, "x_grad", {"x_grad"}, {a.dt})
       \o <<set_output("x_grad", "x_grad",
              "where(greater_than(out,full(0)),out_grad,full(0))")>>
  ELSE <<>>

\* no test of grad_x.  a.xd: x.dims(); a.od: out_grad.dims().
gather_grad(a, r) ==
  Ops(<<"full">>, "", {"grad_x"}, {a.dt})
  \o (IF Len(a.xd) > 0 THEN Ops(<<"transpose">>, "", {"grad_x"}, {a.dt}) ELSE <<>>)
  \o (IF Len(a.od) > 0 THEN Ops(<<"transpose">>, "", {"grad_x"}, {a.dt}) ELSE <<>>)
  \o Ops(<<"scatter">>, "", {"grad_x"}, {a.dt})
  \o (IF Len(a.xd) > 0 THEN Ops(<<"transpose">>, "", {"grad_x"}, {a.dt}) ELSE <<>>)
  \o <<set_output("", "grad_x",
         IF Len(a.xd) > 0
         THEN "transpose(scatter(transpose(full(0)),index,out_grad_t),reverse_perm)"
         ELSE "scatter(full(0),index,out_grad_t)")>>

gather_nd_grad(a, r) ==
  IF "x_grad" \in r
  THEN Ops(<<"full", "scatter_nd_add">>, "x_grad", {"x_grad"}, {a.dt})
       \o <<set_output("x_grad", "x_grad", "scatter_nd_add(full(0),index,out_grad)")>>
  ELSE <<>>

\* the guard of the block that computes x_hat and std_inv
\* Faulty variant of InstanceNormShared: x_hat and std_inv are computed for
\* scale_grad only.
InstanceNormSharedScaleOnly(r) == "scale_grad" \in r

InstanceNormShared(r) == "scale_grad" \in r \/ "x_grad" \in r

\* scale_dtype: the dtype of scale, or of x when scale is absent
InstanceNormScaleDtype(a) == IF a.scale THEN a.sdt ELSE a.dt

\* Faulty variant of InstanceNormAffineWrite: nothing is written without scale.
InstanceNormAffineSkip(a, slot, result, ct) ==
  IF a.scale
  THEN IF IsReduced(a.sdt)
       THEN Ops(<<"cast">>, slot, {slot}, {ct})
            \o <<set_output(slot, slot, Bin("cast", result, a.sdt))>>
       ELSE <<set_output(slot, slot, result)>>
  ELSE <<>>

\* The write of scale_grad / bias_grad: cast back when scale_dtype is a
\* reduced-precision type, then set_output.  ct: dtype of the result.
InstanceNormAffineWrite(a, slot, result, ct) ==
  LET scale_dtype == InstanceNormScaleDtype(a)
  IN IF IsReduced(scale_dtype)
     THEN Ops(<<"cast">>, slot, {slot}, {ct})
          \o <<set_output(slot, slot, Bin("cast", result, scale_dtype))>>
     ELSE <<set_output(slot, slot, result)>>

\* a.dt: x.dtype(); a.scale: presence of the optional scale; a.sdt: its dtype
instance_norm_grad(a, r) ==
  LET XS == {"x_grad", "scale_grad"}
      ALL == {"x_grad", "scale_grad", "bias_grad"}
      red == IsReduced(a.dt)
      ct == IF red THEN "float32" ELSE a.dt
      promoted_y_grad == IF red THEN "cast(y_grad,float32)" ELSE "y_grad"
      Prom(t) == IF red THEN Bin("cast", t, "float32") ELSE t
      \* x_hat and std_inv stay default-constructed unless the block runs
      shared == InstanceNormShared(r)
      std_inv == IF shared THEN Un("tile", Un("reshape", Prom("saved_variance")))
                 ELSE "Tensor()"
      x_hat == IF shared
               THEN Bin("mul", Bin("sub", Prom("x"),
                                   Un("tile", Un("reshape", Prom("saved_mean")))),
                        std_inv)
               ELSE "Tensor()"
      \* dtype of scale_data, and the dtype the affine gradients are written in
      scale_dtype == InstanceNormScaleDtype(a)
      scale_data == Un("tile", Un("reshape", IF a.scale THEN "scale" ELSE "full(1)"))
      promoted_scale == IF IsReduced(scale_dtype) THEN Bin("cast", scale_data, "float32")
                        ELSE scale_data
      result_x == Bin("mul", Bin("mul", promoted_scale, std_inv),
                      Bin("sub", Bin("sub", promoted_y_grad,
                                     Un("mean23", promoted_y_grad)),
                          Bin("mul", x_hat,
                              Un("mean23", Bin("mul", promoted_y_grad, x_hat)))))
      result_scale == Un("sum023", Bin("mul", promoted_y_grad, x_hat))
      result_bias == Un("sum023", promoted_y_grad)
      Back(t, dt) == IF IsReduced(dt) THEN Bin("cast", t, dt) ELSE t
  IN \* lines 956-960
     (IF red THEN Ops(<<"cast">>, "", ALL, {a.dt}) ELSE <<>>)
     \* lines 964-979
     \o (IF shared
         THEN (IF red THEN Ops(<<"cast", "cast", "cast">>, "x_grad|scale_grad", XS, {a.dt})
               ELSE <<>>)
              \o Ops(<<"reshape", "tile", "reshape", "tile", "subtract", "multiply">>,
                     "x_grad|scale_grad", XS, {ct})
         ELSE <<>>)
     \* lines 983-1008
     \o (IF "x_grad" \in r
         THEN (IF a.scale THEN <<>>
               ELSE Ops(<<"full">>, "x_grad", {"x_grad"}, {a.dt}))
              \o Ops(<<"reshape", "tile">>, "x_grad", {"x_grad"}, {scale_dtype})
              \o (IF IsReduced(scale_dtype)
                  THEN Ops(<<"cast">>, "x_grad", {"x_grad"}, {scale_dtype})
                  ELSE <<>>)
              \o Ops(<<"multiply", "sum", "divide", "subtract", "multiply", "sum",
                       "divide", "multiply", "subtract", "multiply">>,
                     "x_grad", {"x_grad"},
                     {ct, IF IsReduced(scale_dtype) THEN "float32" ELSE scale_dtype})
              \o (IF red THEN Ops(<<"cast">>, "x_grad", {"x_grad"}, {ct}) ELSE <<>>)
              \o <<set_output_typed("x_grad", "x_grad", Back(result_x, a.dt),
                     IF red THEN a.dt                           \* cast to x.dtype()
                     ELSE ResultDType({ct, IF IsReduced(scale_dtype) THEN "float32"
                                           ELSE scale_dtype}))>>
         ELSE <<>>)
     \* lines 1010-1019: written whether or not scale is present
     \o (IF "scale_grad" \in r
         THEN Ops(<<"multiply", "sum">>, "scale_grad", {"scale_grad"}, {ct})
              \o InstanceNormAffineWrite(a, "scale_grad", result_scale, ct)
         ELSE <<>>)
     \* lines 1021-1030: written whether or not scale is present
     \o (IF "bias_grad" \in r
         THEN Ops(<<"sum">>, "bias_grad", {"bias_grad"}, {ct})
              \o InstanceNormAffineWrite(a, "bias_grad", result_bias, ct)
         ELSE <<>>)

pad_grad(a, r) ==
  IF "input_grad" \in r
  THEN Ops(<<"slice">>, "input_grad", {"input_grad"}, {a.dt})
       \o <<set_output("input_grad", "input_grad", "slice(out_grad,axes,starts,ends)")>>
  ELSE <<>>

\* a.xd: x.dims(); a.keepdim
max_grad(a, r) ==
  IF "x_grad" \notin r THEN <<>>
  ELSE LET x_dim_size == Len(a.xd)
       IN Ops(<<"full">>, "x_grad", {"x_grad"}, {a.dt})
          \o (IF x_dim_size = 0 \/ x_dim_size = 1 \/ a.keepdim
              THEN Ops(<<"expand", "expand", "equal", "where">>,
                       "x_grad", {"x_grad"}, {a.dt})
                   \o <<set_output("x_grad", "x_grad",
                          "where(equal(x,expand(out)),expand(out_grad),full(0))")>>
              ELSE Ops(<<"reshape", "reshape", "expand", "expand", "equal", "where">>,
                       "x_grad", {"x_grad"}, {a.dt})
                   \o <<set_output("x_grad", "x_grad",
                          "where(equal(x,expand(reshape(out))),expand(reshape(out_grad)),full(0))")>>)

\* a.xd: input.dims(); a.decrease_size: decrease_axis.size()
slice_grad(a, r) ==
  IF "input_grad" \in r
  THEN IF a.decrease_size > 0 /\ a.decrease_size # Len(a.xd)
       THEN Ops(<<"reshape", "pad">>, "input_grad", {"input_grad"}, {a.dt})
            \o <<set_output("input_grad", "input_grad",
                   "pad(reshape(out_grad,origin_out_shape),paddings,0)")>>
       ELSE Ops(<<"pad">>, "input_grad", {"input_grad"}, {a.dt})
            \o <<set_output("input_grad", "input_grad", "pad(out_grad,paddings,0)")>>
  ELSE <<>>

\* a.repeat_times: the repeat counts; one split, one full and one add per
\* section for every entry
tile_grad(a, r) ==
  LET RECURSIVE Loop(_)
      Loop(i) ==
        IF i > Len(a.repeat_times) THEN <<>>
        ELSE Ops(<<"split", "full">>, "x_grad", {"x_grad"}, {a.dt})
             \o Ops([j \in 1..a.repeat_times[i] |-> "add"], "x_grad", {"x_grad"}, {a.dt})
             \o Loop(i + 1)
  IN IF "x_grad" \in r
     THEN Loop(1)
          \o Ops(<<"reshape">>, "x_grad", {"x_grad"}, {a.dt})
          \o <<set_output("x_grad", "x_grad",
                 Bin("reshape", Bin("tile_sum", "out_grad", ToString(a.repeat_times)),
                     ToString(a.xd)))>>
     ELSE <<>>

hardswish_grad(a, r) ==
  IF "x_grad" \in r
  THEN Ops(<<"full", "less_equal", "divide", "add", "multiply", "where",
             "full", "less_than", "full", "where">>, "x_grad", {"x_grad"}, {a.dt})
       \o <<set_output("x_grad", "x_grad",
              "where(less_than(x,full(-3)),full(0),where(less_equal(x,full(3)),mul(out_grad,add(div(x,3),0.5)),out_grad))")>>
  ELSE <<>>

leaky_relu_grad(a, r) ==
  IF "x_grad" \in r
  THEN Ops(<<"full", "greater_than", "multiply", "where">>, "x_grad", {"x_grad"}, {a.dt})
       \o <<set_output("x_grad", "x_grad",
              "where(greater_than(out,full(0)),out_grad,mul(out_grad,negative_slope))")>>
  ELSE <<>>

sigmoid_grad(a, r) ==
  IF "x_grad" \in r
  THEN Ops(<<"subtract", "multiply", "multiply">>, "x_grad", {"x_grad"}, {a.dt})
       \o <<set_output("x_grad", "x_grad", "mul(out_grad,mul(out,sub(1,out)))")>>
  ELSE <<>>

\* a.xd: x.dims()
topk_grad(a, r) ==
  IF "x_grad" \in r
  THEN IF Len(a.xd) = 0
       THEN <<by_pass("x_grad", "x_grad", "out_grad")>>
       ELSE Ops(<<"full", "put_along_axis">>, "x_grad", {"x_grad"}, {a.dt})
            \o <<set_output("x_grad", "x_grad",
                   "put_along_axis(full(0),indices,out_grad,axis)")>>
  ELSE <<>>

\* a.xd: x.dims(); a.keepdim: keep_dim
prod_grad(a, r) ==
  IF "x_grad" \in r
  THEN LET x_dim_size == Len(a.xd)
           resh == x_dim_size # 1 /\ ~a.keepdim
       IN (IF resh
           THEN Ops(<<"reshape", "expand", "reshape", "expand">>,
                    "x_grad", {"x_grad"}, {a.dt})
           ELSE Ops(<<"expand", "expand">>, "x_grad", {"x_grad"}, {a.dt}))
          \o Ops(<<"multiply", "divide", "multiply">>, "x_grad", {"x_grad"}, {a.dt})
          \o <<set_output("x_grad", "x_grad",
                 IF resh
                 THEN "mul(mul(expand(reshape(out_grad)),expand(reshape(out))),div(1,x))"
                 ELSE "mul(mul(expand(out_grad),expand(out)),div(1,x))")>>
  ELSE <<>>

minimum_grad(a, r) ==
  (IF "x_grad" \in r
   THEN Ops(<<"less_than", "cast", "multiply">>, "x_grad", {"x_grad"}, {a.dt})
        \o ReduceBack("x_grad", "mul(out_grad,cast(less_than(x,y)))",
                      a.xd, a.yd, "set_output", a.dt)
   ELSE <<>>)
  \o
  (IF "y_grad" \in r
   THEN Ops(<<"greater_equal", "cast", "multiply">>, "y_grad", {"y_grad"}, {a.dt})
        \o ReduceBack("y_grad", "mul(out_grad,cast(greater_equal(x,y)))",
                      a.yd, a.xd, "set_output", a.dt)
   ELSE <<>>)

(***************************************************************************)
(* The trace layer's state machine.                                        *)
(***************************************************************************)
Init ==
  /\ pc = "idle"
  /\ rule = "none"
  /\ args = [dt |-> "float32"]
  /\ slots = {}
  /\ req = {}
  /\ trace = <<>>
  /\ outcome = "none"
  /\ res = <<>>

\* slots handed to set_output / by_pass although they were passed as null
NullWrites(t, r) == {t[i].slot : i \in {j \in 1..Len(t) : IsWrite(t[j]) /\ t[j].slot \notin r}}

\* One call of rule `name` with inputs a, slot parameters S of which r are
\* non-null, executing trace t.  set_output and by_pass dereference the slot
\* pointer: on a null slot the behaviour is undefined, the process is killed
\* or carries on in an unspecified way.
Invoke(name, a, S, r, t) ==
  /\ pc = "idle"
  /\ pc' = "done"
  /\ rule' = name
  /\ args' = a
  /\ slots' = S
  /\ req' = r
  /\ trace' = t
  /\ outcome' \in (IF NullWrites(t, r) = {} THEN {"returned"}
                   ELSE {"abort", "undefined"})
  /\ res' = <<>>

UnaryArgs == [dt : DTypes, xd : Shapes]

BinaryArgs == {a \in [dt : DTypes, xd : Shapes, yd : Shapes] : Compatible(a.xd, a.yd)}

\* x is expandable to the target shape yd
ExpandArgs == {a \in BinaryArgs : BroadcastTwoDims(a.xd, a.yd) = a.yd}

ReduceArgs == [dt : DTypes, xd : Shapes, keepdim : BOOLEAN]

GeluArgs == [dt : DTypes, xd : Shapes, approximate : BOOLEAN]

ListArgs == [dt : DTypes, n : 1..MaxInputs]

LayerNormArgs ==
  {a \in [dt : DTypes, scale : BOOLEAN, bias : BOOLEAN,
          sdt : DTypes, bdt : DTypes, mdt : DTypes] :
     /\ (~a.scale => a.sdt = a.dt) /\ (~a.bias => a.bdt = a.dt)
     \* the forward op keeps mean and variance in float32 for a reduced x
     /\ a.mdt = (IF IsReduced(a.dt) THEN "float32" ELSE a.dt)}

InstanceNormArgs ==
  {a \in [dt : DTypes, scale : BOOLEAN, sdt : DTypes] : ~a.scale => a.sdt = a.dt}

DropoutArgs ==
  [dt : DTypes, is_test : BOOLEAN,
   mode : {"upscale_in_train", "downscale_in_infer"}, p_is_one : BOOLEAN]

SoftmaxArgs ==
  {a \in [dt : DTypes, xd : Shapes, axis : (-MaxRank)..(MaxRank - 1)] :
     IF Len(a.xd) = 0 THEN a.axis \in {-1, 0}
     ELSE a.axis >= -Len(a.xd) /\ a.axis < Len(a.xd)}

\* out_grad has x's rank, or one less when the index is zero-dimensional
GatherArgs ==
  {a \in [dt : DTypes, xd : Shapes, od : Shapes] :
     Len(a.od) = Len(a.xd) \/ Len(a.od) = Len(a.xd) - 1}

SliceArgs ==
  {a \in [dt : DTypes, xd : Shapes, decrease_size : 0..MaxRank] :
     a.decrease_size <= Len(a.xd)}

TileArgs == [dt : DTypes, xd : Shapes, repeat_times : Shapes]

Call_abs_grad ==
  /\ pc = "idle"
  /\ \E a \in UnaryArgs : \E r \in SUBSET {"x_grad"} :
       Invoke("abs_grad", a, {"x_grad"}, r, abs_grad(a, r))

Call_assign_grad ==
  /\ pc = "idle"
  /\ \E a \in UnaryArgs : \E r \in SUBSET {"x_grad"} :
       Invoke("assign_grad", a, {"x_grad"}, r, assign_grad(a, r))

Call_cumsum_grad ==
  /\ pc = "idle"
  /\ \E a \in UnaryArgs : \E r \in SUBSET {"x_grad"} :
       Invoke("cumsum_grad", a, {"x_grad"}, r, cumsum_grad(a, r))

Call_divide_grad ==
  /\ pc = "idle"
  /\ \E a \in BinaryArgs : \E r \in SUBSET {"dx", "dy"} :
       Invoke("divide_grad", a, {"dx", "dy"}, r, divide_grad(a, r))

Call_floor_grad ==
  /\ pc = "idle"
  /\ \E a \in UnaryArgs : \E r \in SUBSET {"x_grad"} :
       Invoke("floor_grad", a, {"x_grad"}, r, floor_grad(a, r))

Call_sum_grad ==
  /\ pc = "idle"
  /\ \E a \in ReduceArgs : \E r \in SUBSET {"x_grad"} :
       Invoke("sum_grad", a, {"x_grad"}, r, sum_grad(a, r))

Call_gelu_grad ==
  /\ pc = "idle"
  /\ \E a \in GeluArgs : \E r \in SUBSET {"x_grad"} :
       Invoke("gelu_grad", a, {"x_grad"}, r, gelu_grad(a, r))

Call_reshape_grad ==
  /\ pc = "idle"
  /\ \E a \in UnaryArgs : \E r \in SUBSET {"grad_x"} :
       Invoke("reshape_grad", a, {"grad_x"}, r, reshape_grad(a, r))

Call_roll_grad ==
  /\ pc = "idle"
  /\ \E a \in UnaryArgs : \E r \in SUBSET {"x_grad"} :
       Invoke("roll_grad", a, {"x_grad"}, r, roll_grad(a, r))

Call_transpose_grad ==
  /\ pc = "idle"
  /\ \E a \in UnaryArgs : \E r \in SUBSET {"grad_x"} :
       Invoke("transpose_grad", a, {"grad_x"}, r, transpose_grad(a, r))

Call_scatter_grad ==
  /\ pc = "idle"
  /\ \E a \in UnaryArgs : \E r \in SUBSET {"x_grad", "updates_grad"} :
       Invoke("scatter_grad", a, {"x_grad", "updates_grad"}, r, scatter_grad(a, r))

Call_scatter_nd_add_grad ==
  /\ pc = "idle"
  /\ \E a \in UnaryArgs : \E r \in SUBSET {"x_grad", "updates_grad"} :
       Invoke("scatter_nd_add_grad", a, {"x_grad", "updates_grad"}, r, scatter_nd_add_grad(a, r))

Call_sin_grad ==
  /\ pc = "idle"
  /\ \E a \in UnaryArgs : \E r \in SUBSET {"x_grad"} :
       Invoke("sin_grad", a, {"x_grad"}, r, sin_grad(a, r))

Call_cos_grad ==
  /\ pc = "idle"
  /\ \E a \in UnaryArgs : \E r \in SUBSET {"x_grad"} :
       Invoke("cos_grad", a, {"x_grad"}, r, cos_grad(a, r))

Call_tanh_grad ==
  /\ pc = "idle"
  /\ \E a \in UnaryArgs : \E r \in SUBSET {"grad_x"} :
       Invoke("tanh_grad", a, {"grad_x"}, r, tanh_grad(a, r))

Call_concat_grad ==
  /\ pc = "idle"
  /\ \E a \in ListArgs : \E r \in SUBSET {XGradSlot(i) : i \in 0..(a.n - 1)} :
       Invoke("concat_grad", a, {XGradSlot(i) : i \in 0..(a.n - 1)}, r, concat_grad(a, r))

Call_split_grad ==
  /\ pc = "idle"
  /\ \E a \in ListArgs : \E r \in SUBSET {"x_grad"} :
       Invoke("split_grad", a, {"x_grad"}, r, split_grad(a, r))

Call_cast_grad ==
  /\ pc = "idle"
  /\ \E a \in UnaryArgs : \E r \in SUBSET {"x_grad"} :
       Invoke("cast_grad", a, {"x_grad"}, r, cast_grad(a, r))

Call_add_grad ==
  /\ pc = "idle"
  /\ \E a \in BinaryArgs : \E r \in SUBSET {"dx", "dy"} :
       Invoke("add_grad", a, {"dx", "dy"}, r, add_grad(a, r))

Call_subtract_grad ==
  /\ pc = "idle"
  /\ \E a \in BinaryArgs : \E r \in SUBSET {"dx", "dy"} :
       Invoke("subtract_grad", a, {"dx", "dy"}, r, subtract_grad(a, r))

Call_multiply_grad ==
  /\ pc = "idle"
  /\ \E a \in BinaryArgs : \E r \in SUBSET {"x_grad", "y_grad"} :
       Invoke("multiply_grad", a, {"x_grad", "y_grad"}, r, multiply_grad(a, r))

Call_elementwise_pow_grad ==
  /\ pc = "idle"
  /\ \E a \in BinaryArgs : \E r \in SUBSET {"dx", "dy"} :
       Invoke("elementwise_pow_grad", a, {"dx", "dy"}, r, elementwise_pow_grad(a, r))

Call_layer_norm_grad ==
  /\ pc = "idle"
  /\ \E a \in LayerNormArgs : \E r \in SUBSET {"x_grad", "scale_grad", "bias_grad"} :
       Invoke("layer_norm_grad", a, {"x_grad", "scale_grad", "bias_grad"}, r, layer_norm_grad(a, r))

Call_dropout_grad ==
  /\ pc = "idle"
  /\ \E a \in DropoutArgs : \E r \in SUBSET {"x_grad"} :
       Invoke("dropout_grad", a, {"x_grad"}, r, dropout_grad(a, r))

Call_erf_grad ==
  /\ pc = "idle"
  /\ \E a \in UnaryArgs : \E r \in SUBSET {"x_grad"} :
       Invoke("erf_grad", a, {"x_grad"}, r, erf_grad(a, r))

Call_expand_grad ==
  /\ pc = "idle"
  /\ \E a \in ExpandArgs : \E r \in SUBSET {"x_grad"} :
       Invoke("expand_grad", a, {"x_grad"}, r, expand_grad(a, r))

Call_log_grad ==
  /\ pc = "idle"
  /\ \E a \in UnaryArgs : \E r \in SUBSET {"x_grad"} :
       Invoke("log_grad", a, {"x_grad"}, r, log_grad(a, r))

Call_exp_grad ==
  /\ pc = "idle"
  /\ \E a \in UnaryArgs : \E r \in SUBSET {"x_grad"} :
       Invoke("exp_grad", a, {"x_grad"}, r, exp_grad(a, r))

Call_sqrt_grad ==
  /\ pc = "idle"
  /\ \E a \in UnaryArgs : \E r \in SUBSET {"x_grad"} :
       Invoke("sqrt_grad", a, {"x_grad"}, r, sqrt_grad(a, r))

Call_silu_grad ==
  /\ pc = "idle"
  /\ \E a \in UnaryArgs : \E r \in SUBSET {"x_grad"} :
       Invoke("silu_grad", a, {"x_grad"}, r, silu_grad(a, r))

Call_softmax_grad ==
  /\ pc = "idle"
  /\ \E a \in SoftmaxArgs : \E r \in SUBSET {"x_grad"} :
       Invoke("softmax_grad", a, {"x_grad"}, r, softmax_grad(a, r))

Call_maximum_grad ==
  /\ pc = "idle"
  /\ \E a \in BinaryArgs : \E r \in SUBSET {"x_grad", "y_grad"} :
       Invoke("maximum_grad", a, {"x_grad", "y_grad"}, r, maximum_grad(a, r))

Call_relu_grad ==
  /\ pc = "idle"
  /\ \E a \in UnaryArgs : \E r \in SUBSET {"x_grad"} :
       Invoke("relu_grad", a, {"x_grad"}, r, relu_grad(a, r))

Call_gather_grad ==
  /\ pc = "idle"
  /\ \E a \in GatherArgs : \E r \in SUBSET {"grad_x"} :
       Invoke("gather_grad", a, {"grad_x"}, r, gather_grad(a, r))

Call_gather_nd_grad ==
  /\ pc = "idle"
  /\ \E a \in UnaryArgs : \E r \in SUBSET {"x_grad"} :
       Invoke("gather_nd_grad", a, {"x_grad"}, r, gather_nd_grad(a, r))

Call_instance_norm_grad ==
  /\ pc = "idle"
  /\ \E a \in InstanceNormArgs : \E r \in SUBSET {"x_grad", "scale_grad", "bias_grad"} :
       Invoke("instance_norm_grad", a, {"x_grad", "scale_grad", "bias_grad"}, r, instance_norm_grad(a, r))

Call_pad_grad ==
  /\ pc = "idle"
  /\ \E a \in UnaryArgs : \E r \in SUBSET {"input_grad"} :
       Invoke("pad_grad", a, {"input_grad"}, r, pad_grad(a, r))

Call_max_grad ==
  /\ pc = "idle"
  /\ \E a \in ReduceArgs : \E r \in SUBSET {"x_grad"} :
       Invoke("max_grad", a, {"x_grad"}, r, max_grad(a, r))

Call_slice_grad ==
  /\ pc = "idle"
  /\ \E a \in SliceArgs : \E r \in SUBSET {"input_grad"} :
       Invoke("slice_grad", a, {"input_grad"}, r, slice_grad(a, r))

Call_tile_grad ==
  /\ pc = "idle"
  /\ \E a \in TileArgs : \E r \in SUBSET {"x_grad"} :
       Invoke("tile_grad", a, {"x_grad"}, r, tile_grad(a, r))

Call_hardswish_grad ==
  /\ pc = "idle"
  /\ \E a \in UnaryArgs : \E r \in SUBSET {"x_grad"} :
       Invoke("hardswish_grad", a, {"x_grad"}, r, hardswish_grad(a, r))

Call_leaky_relu_grad ==
  /\ pc = "idle"
  /\ \E a \in UnaryArgs : \E r \in SUBSET {"x_grad"} :
       Invoke("leaky_relu_grad", a, {"x_grad"}, r, leaky_relu_grad(a, r))

Call_sigmoid_grad ==
  /\ pc = "idle"
  /\ \E a \in UnaryArgs : \E r \in SUBSET {"x_grad"} :
       Invoke("sigmoid_grad", a, {"x_grad"}, r, sigmoid_grad(a, r))

Call_topk_grad ==
  /\ pc = "idle"
  /\ \E a \in UnaryArgs : \E r \in SUBSET {"x_grad"} :
       Invoke("topk_grad", a, {"x_grad"}, r, topk_grad(a, r))

Call_prod_grad ==
  /\ pc = "idle"
  /\ \E a \in ReduceArgs : \E r \in SUBSET {"x_grad"} :
       Invoke("prod_grad", a, {"x_grad"}, r, prod_grad(a, r))

Call_minimum_grad ==
  /\ pc = "idle"
  /\ \E a \in BinaryArgs : \E r \in SUBSET {"x_grad", "y_grad"} :
       Invoke("minimum_grad", a, {"x_grad", "y_grad"}, r, minimum_grad(a, r))

Next ==
  \/ Call_abs_grad
  \/ Call_assign_grad
  \/ Call_cumsum_grad
  \/ Call_divide_grad
  \/ Call_floor_grad
  \/ Call_sum_grad
  \/ Call_gelu_grad
  \/ Call_reshape_grad
  \/ Call_roll_grad
  \/ Call_transpose_grad
  \/ Call_scatter_grad
  \/ Call_scatter_nd_add_grad
  \/ Call_sin_grad
  \/ Call_cos_grad
  \/ Call_tanh_grad
  \/ Call_concat_grad
  \/ Call_split_grad
  \/ Call_cast_grad
  \/ Call_add_grad
  \/ Call_subtract_grad
  \/ Call_multiply_grad
  \/ Call_elementwise_pow_grad
  \/ Call_layer_norm_grad
  \/ Call_dropout_grad
  \/ Call_erf_grad
  \/ Call_expand_grad
  \/ Call_log_grad
  \/ Call_exp_grad
  \/ Call_sqrt_grad
  \/ Call_silu_grad
  \/ Call_softmax_grad
  \/ Call_maximum_grad
  \/ Call_relu_grad
  \/ Call_gather_grad
  \/ Call_gather_nd_grad
  \/ Call_instance_norm_grad
  \/ Call_pad_grad
  \/ Call_max_grad
  \/ Call_slice_grad
  \/ Call_tile_grad
  \/ Call_hardswish_grad
  \/ Call_leaky_relu_grad
  \/ Call_sigmoid_grad
  \/ Call_topk_grad
  \/ Call_prod_grad
  \/ Call_minimum_grad

Spec == Init /\ [][Next]_vars

(***************************************************************************)
(* Properties of the trace layer.                                          *)
(***************************************************************************)
MultiSlotRules ==
  {"add_grad", "subtract_grad", "multiply_grad", "divide_grad",
   "elementwise_pow_grad", "maximum_grad", "minimum_grad", "scatter_grad",
   "scatter_nd_add_grad", "concat_grad", "layer_norm_grad", "instance_norm_grad"}

\* the trace of multi-slot rule `name` on inputs a with non-null slots r
RunRule(name, a, r) ==
  CASE name = "add_grad" -> add_grad(a, r)
    [] name = "subtract_grad" -> subtract_grad(a, r)
    [] name = "multiply_grad" -> multiply_grad(a, r)
    [] name = "divide_grad" -> divide_grad(a, r)
    [] name = "elementwise_pow_grad" -> elementwise_pow_grad(a, r)
    [] name = "maximum_grad" -> maximum_grad(a, r)
    [] name = "minimum_grad" -> minimum_grad(a, r)
    [] name = "scatter_grad" -> scatter_grad(a, r)
    [] name = "scatter_nd_add_grad" -> scatter_nd_add_grad(a, r)
    [] name = "concat_grad" -> concat_grad(a, r)
    [] name = "layer_norm_grad" -> layer_norm_grad(a, r)
    [] name = "instance_norm_grad" -> instance_norm_grad(a, r)

\* events of trace t that are tensor primitives
Primitives(t) == {i \in 1..Len(t) : ~IsWrite(t[i])}

\* C1: for every multi-slot rule and every set of null slots, what a call
\* writes into each non-null slot is what the call on the same inputs with
\* every slot non-null writes into it.
AbsentSlotInvariance ==
  (pc = "done" /\ rule \in MultiSlotRules) =>
    \A s \in req : Written(trace, s) = Written(RunRule(rule, args, slots), s)

\* C1 witness: instance_norm_grad asked for x_grad alone has written it.
AbsentSlotInvarianceWitness ==
  /\ pc = "done"
  /\ rule = "instance_norm_grad"
  /\ req = {"x_grad"}
  /\ Len(Written(trace, "x_grad")) = 1
  /\ Writes(RunRule(rule, args, slots), "scale_grad") = 1

\* C2: no rule passes a null slot to set_output or by_pass, and every call
\* returns normally; a single-slot rule called with its slot null does nothing.
NullSlotNeverWritten ==
  pc = "done" =>
    /\ NullWrites(trace, req) = {}
    /\ outcome = "returned"

\* all optional forward parameters of the call are present
OptionalPresent ==
  /\ rule = "layer_norm_grad" => (args.scale /\ args.bias)
  /\ rule = "instance_norm_grad" => args.scale

AbsentRequested(s) ==
  /\ s \in req
  /\ IF s = "scale_grad" THEN ~args.scale ELSE ~args.bias

\* C4: layer_norm_grad with scale (bias) absent and scale_grad (bias_grad)
\* requested returns normally, runs nothing of that slot's block and leaves
\* the slot unwritten; x_grad and the other affine slot are written as in the
\* call that does not request the slot.
LayerNormAbsentAffineSkipped ==
  (pc = "done" /\ rule = "layer_norm_grad") =>
    \A s \in {"scale_grad", "bias_grad"} :
      AbsentRequested(s) =>
        /\ outcome = "returned"
        /\ Writes(trace, s) = 0
        /\ \A i \in 1..Len(trace) : trace[i].blk # s
        /\ \A o \in req \ {s} :
             /\ Written(trace, o) = Written(layer_norm_grad(args, req \ {s}), o)
             /\ (o = "x_grad" \/ ~AbsentRequested(o)) => Writes(trace, o) = 1

\* C4 witness: scale absent, bias present, all three slots requested.
LayerNormAbsentAffineSkippedWitness ==
  /\ pc = "done"
  /\ rule = "layer_norm_grad"
  /\ ~args.scale
  /\ args.bias
  /\ req = {"x_grad", "scale_grad", "bias_grad"}
  /\ Writes(trace, "scale_grad") = 0
  /\ Writes(trace, "x_grad") = 1
  /\ Writes(trace, "bias_grad") = 1

\* C5 as stated: instance_norm_grad without scale leaves a requested
\* scale_grad or bias_grad unwritten.
InstanceNormAbsentScaleSkipped ==
  (pc = "done" /\ rule = "instance_norm_grad" /\ ~args.scale) =>
    \A s \in {"scale_grad", "bias_grad"} \cap req : Writes(trace, s) = 0

\* C5: instance_norm_grad without scale returns normally and writes a
\* requested scale_grad or bias_grad exactly once, with the value it writes
\* when a scale of x's dtype is present.
InstanceNormAbsentScaleWritten ==
  (pc = "done" /\ rule = "instance_norm_grad" /\ ~args.scale) =>
    /\ outcome = "returned"
    /\ \A s \in {"scale_grad", "bias_grad"} \cap req :
         /\ Writes(trace, s) = 1
         /\ Written(trace, s)
              = Written(instance_norm_grad([args EXCEPT !.scale = TRUE, !.sdt = args.dt],
                                           req), s)

\* C5 witness: no scale, scale_grad and bias_grad requested and both written.
InstanceNormAbsentScaleWrittenWitness ==
  /\ pc = "done"
  /\ rule = "instance_norm_grad"
  /\ ~args.scale
  /\ {"scale_grad", "bias_grad"} \subseteq req
  /\ Writes(trace, "scale_grad") = 1
  /\ Writes(trace, "bias_grad") = 1

\* C6: every tensor primitive a call executes feeds at least one requested
\* slot; with every slot null no primitive is executed.
NoSuperfluousPrimitive ==
  pc = "done" =>
    \A i \in Primitives(trace) : trace[i].feeds \cap req # {}

\* the rules that promote a reduced-precision input
PromotingRules ==
  {"gelu_grad", "layer_norm_grad", "exp_grad", "instance_norm_grad", "silu_grad"}

\* primitives that move or create data without arithmetic on it
DataMovement == {"cast", "reshape", "tile", "full"}

\* the optional affine parameters have the dtype the forward op gives them:
\* x's dtype, or float32 next to a reduced-precision x
AffineDTypesOfForward ==
  LET ok(dt) == dt = args.dt \/ (dt = "float32" /\ args.dt \in {"float16", "bfloat16"})
  IN /\ rule \in {"layer_norm_grad", "instance_norm_grad"} => (args.scale => ok(args.sdt))
     /\ rule = "layer_norm_grad" => (args.bias => ok(args.bdt))

\* C15: in gelu_grad, layer_norm_grad, exp_grad, instance_norm_grad and
\* silu_grad, with a float16 or bfloat16 input no arithmetic primitive gets a
\* reduced-precision operand (operands are cast to float32 first) and the
\* tensor written to x_grad has the input's dtype; with a float32 or float64
\* input no cast runs and the tensor written to x_grad has the input's dtype.
ReducedPrecisionPromoted ==
  (pc = "done" /\ rule \in PromotingRules /\ AffineDTypesOfForward) =>
    /\ \A i \in 1..Len(trace) :
         (IsWrite(trace[i]) /\ trace[i].slot = "x_grad") => trace[i].dts = {args.dt}
    /\ IF args.dt \in {"float16", "bfloat16"}
       THEN /\ \A i \in Primitives(trace) :
                 trace[i].op \notin DataMovement =>
                   trace[i].dts \cap {"float16", "bfloat16"} = {}
            /\ "x_grad" \in req =>
                 \E i \in Primitives(trace) :
                    trace[i].op = "cast" /\ trace[i].dts = {args.dt}
       ELSE \A i \in Primitives(trace) : trace[i].op # "cast"

\* C15 witness: silu_grad on a bfloat16 input has cast, computed in float32
\* and written a bfloat16 gradient.
ReducedPrecisionPromotedWitness ==
  /\ pc = "done"
  /\ rule = "silu_grad"
  /\ args.dt = "bfloat16"
  /\ req = {"x_grad"}
  /\ \E i \in Primitives(trace) : trace[i].op = "cast" /\ trace[i].dts = {"bfloat16"}
  /\ \E i \in Primitives(trace) : trace[i].op = "multiply" /\ trace[i].dts = {"float32"}
  /\ \E i \in 1..Len(trace) :
        IsWrite(trace[i]) /\ trace[i].slot = "x_grad" /\ trace[i].dts = {"bfloat16"}

(***************************************************************************)
(* The value layer: tensors are [dims, data] with data in row-major order. *)
(* Axes and coordinates are 0-based as in the source; sequences are        *)
(* 1-based.                                                                *)
(***************************************************************************)
VMaxRank == 2     \* ranks 0..VMaxRank of value-layer tensors
VMaxExtent == 3   \* extents 1..VMaxExtent
VMaxNumel == 4    \* at most VMaxNumel elements per tensor

XVals == {1, 3}   \* forward values
GVals == {2, 5}   \* upstream gradient values

\* product of d[i..]
RECURSIVE ProdFrom(_, _)
ProdFrom(d, i) == IF i > Len(d) THEN 1 ELSE d[i] * ProdFrom(d, i + 1)

Numel(d) == ProdFrom(d, 1)

VShapes ==
  {d \in UNION {[1..n -> 1..VMaxExtent] : n \in 0..VMaxRank} : Numel(d) <= VMaxNumel}

Tensors(d, V) == {[dims |-> d, data |-> f] : f \in [1..Numel(d) -> V]}

\* the upstream gradient of dims d: a different value at every position, so
\* that a written entry tells which entry of out_grad it came from
GradTensors(d) ==
  {[dims |-> d, data |-> [k \in 1..Numel(d) |-> 2 + 3 * k]]}

\* coordinates of the k-th (0-based) element of a tensor of dims d
Coord(k, d) == [j \in 1..Len(d) |-> (k \div ProdFrom(d, j + 1)) % d[j]]

\* row-major offset (0-based) of coordinates c in dims d
RECURSIVE FlatFrom(_, _, _)
FlatFrom(c, d, j) ==
  IF j > Len(d) THEN 0 ELSE c[j] * ProdFrom(d, j + 1) + FlatFrom(c, d, j + 1)

At(t, c) == t.data[FlatFrom(c, t.dims, 1) + 1]

\* full<T>(dims, v)
Full(d, v) == [dims |-> d, data |-> [k \in 1..Numel(d) |-> v]]

\* expand: broadcast t to dims d, aligned at the trailing axis
Expand(t, d) ==
  LET off == Len(d) - Len(t.dims)
  IN [dims |-> d,
      data |-> [k \in 1..Numel(d) |->
                  LET c == Coord(k - 1, d)
                  IN At(t, [j \in 1..Len(t.dims) |->
                              IF t.dims[j] = 1 THEN 0 ELSE c[j + off]])]]

\* reshape: same data, new dims
Reshape(t, d) == [dims |-> d, data |-> t.data]

\* equal<T>(a, b): elementwise comparison of two tensors of the same dims
Equal(a, b) == [dims |-> a.dims, data |-> [k \in 1..Numel(a.dims) |-> a.data[k] = b.data[k]]]

\* where<T>(mask, a, b)
Where(mask, a, b) ==
  [dims |-> a.dims,
   data |-> [k \in 1..Numel(a.dims) |-> IF mask.data[k] THEN a.data[k] ELSE b.data[k]]]

\* the shape of origin with a size-1 axis reinserted at every position of axis
get_unsqueeze_dims(origin, axis) ==
  LET A == {axis[i] : i \in 1..Len(axis)}
      total == Len(origin.dims) + Len(axis)
      \* number of positions before i that are not reinserted
      Kept(i) == Cardinality({j \in 0..(i - 1) : j \notin A})
  IN [i \in 1..total |-> IF (i - 1) \in A THEN 1 ELSE origin.dims[Kept(i - 1) + 1]]

(***************************************************************************)
(* Forward reductions, used to draw the forward output the rules are given *)
(* and to state what a gradient must be.                                   *)
(***************************************************************************)
\* the set of reduced axes: every axis for an empty list, otherwise the
\* entries with negative ones counted from the end
ReducedAxes(axis, rank) ==
  IF Len(axis) = 0 THEN 0..(rank - 1)
  ELSE {IF axis[i] < 0 THEN axis[i] + rank ELSE axis[i] : i \in 1..Len(axis)}

\* dims of the reduction's output
ReducedDims(d, A, keepdim) ==
  IF keepdim THEN [j \in 1..Len(d) |-> IF (j - 1) \in A THEN 1 ELSE d[j]]
  ELSE LET kept == SortedSeq({j \in 0..(Len(d) - 1) : j \notin A})
       IN [i \in 1..Len(kept) |-> d[kept[i] + 1]]

\* coordinates in the output of the group the input coordinates c belong to
GroupCoord(c, A, keepdim) ==
  IF keepdim THEN [j \in 1..Len(c) |-> IF (j - 1) \in A THEN 0 ELSE c[j]]
  ELSE LET kept == SortedSeq({j \in 0..(Len(c) - 1) : j \notin A})
       IN [i \in 1..Len(kept) |-> c[kept[i] + 1]]

MaxOf(S) == CHOOSE m \in S : \A v \in S : v <= m

\* max(x, axis, keepdim)
ReduceMax(x, axis, keepdim) ==
  LET A == ReducedAxes(axis, Len(x.dims))
      od == ReducedDims(x.dims, A, keepdim)
  IN [dims |-> od,
      data |-> [k \in 1..Numel(od) |->
                  MaxOf({x.data[i] : i \in {i2 \in 1..Numel(x.dims) :
                           FlatFrom(GroupCoord(Coord(i2 - 1, x.dims), A, keepdim),
                                    od, 1) = k - 1}})]]

\* reduction axis lists a forward reduction accepts for a tensor of rank n:
\* distinct axes in any order, all written non-negative or all counted from
\* the end
AxisLists(n) ==
  {l \in UNION {[1..m -> (-n)..(n - 1)] : m \in 0..n} :
     /\ \A i, j \in 1..Len(l) : i # j => (l[i] + n) % n # (l[j] + n) % n
     /\ (\A i \in 1..Len(l) : l[i] >= 0) \/ (\A i \in 1..Len(l) : l[i] < 0)}

(***************************************************************************)
(* max_grad on values (lines 1059-1109).                                   *)
(***************************************************************************)
\* Faulty variant of MaxGradMask: only the first position equal to the maximum
\* keeps the gradient.
MaxGradMaskFirstOnly(x, out_tmp, out_grad_tmp, zero_tensor) ==
  LET mask == Equal(x, out_tmp)
      first == [dims |-> mask.dims,
                data |-> [k \in 1..Numel(mask.dims) |->
                            mask.data[k] /\ \A k2 \in 1..(k - 1) : ~mask.data[k2]]]
  IN Where(first, out_grad_tmp, zero_tensor)

\* mask = equal<T>(x, out_tmp); x_grad_tmp = where<T>(mask, out_grad_tmp, zero_tensor)
MaxGradMask(x, out_tmp, out_grad_tmp, zero_tensor) ==
  LET mask == Equal(x, out_tmp)
  IN Where(mask, out_grad_tmp, zero_tensor)

max_grad_value(x, out, out_grad, axis, keepdim, reduce_all_in) ==
  LET zero_tensor == Full(x.dims, 0)
      x_dim == x.dims
      axis_size == Len(axis)
      x_dim_size == Len(x_dim)
      reduce_all == ReduceAll(reduce_all_in, axis_size, x_dim_size)
  IN IF x_dim_size = 0 \/ x_dim_size = 1 \/ keepdim
     THEN LET out_grad_tmp == Expand(out_grad, x_dim)
              out_tmp == Expand(out, x_dim)
          IN MaxGradMask(x, out_tmp, out_grad_tmp, zero_tensor)
     ELSE LET axis_ == IF reduce_all
                       THEN [i \in 1..x_dim_size |-> i - 1]
                       ELSE [i \in 1..axis_size |->
                               IF axis[i] < 0 THEN axis[i] + x_dim_size ELSE axis[i]]
              out_grad_shape == get_unsqueeze_dims(out_grad, axis_)
              out_grad_ == Reshape(out_grad, out_grad_shape)
              out_ == Reshape(out, out_grad_shape)
              out_grad_tmp == Expand(out_grad_, x_dim)
              out_tmp == Expand(out_, x_dim)
          IN MaxGradMask(x, out_tmp, out_grad_tmp, zero_tensor)

\* One value-layer call: inputs a, requested slots r, written tensors w.
Evaluate(name, a, S, r, w) ==
  /\ pc = "idle"
  /\ pc' = "done"
  /\ rule' = name
  /\ args' = a
  /\ slots' = S
  /\ req' = r
  /\ trace' = <<>>
  /\ outcome' = "returned"
  /\ res' = w

Value_max_grad ==
  /\ pc = "idle"
  /\ \E d \in VShapes : \E x \in Tensors(d, XVals) :
     \E axis \in AxisLists(Len(d)) : \E keepdim, reduce_all \in BOOLEAN :
       LET out == ReduceMax(x, axis, keepdim)
       IN \E out_grad \in GradTensors(out.dims) : \E r \in SUBSET {"x_grad"} :
            Evaluate("max_grad",
                     [x |-> x, out |-> out, out_grad |-> out_grad, axis |-> axis,
                      keepdim |-> keepdim, reduce_all |-> reduce_all],
                     {"x_grad"}, r,
                     [s \in r |-> max_grad_value(x, out, out_grad, axis, keepdim,
                                                 reduce_all)])

\* C8: max_grad gives x's shape; every position of x equal to the maximum of
\* its reduction group receives that group's whole out_grad entry and every
\* other position zero, for every axis list and keepdim; for x = [3,3,1]
\* positions 0 and 1 both receive out_grad.
MaxGradRoutesToEveryMaximum ==
  (pc = "done" /\ rule = "max_grad" /\ "x_grad" \in req) =>
    LET x == args.x
        A == ReducedAxes(args.axis, Len(x.dims))
        g == res["x_grad"]
    IN /\ g.dims = x.dims
       /\ \A k \in 1..Numel(x.dims) :
            LET c == GroupCoord(Coord(k - 1, x.dims), A, args.keepdim)
            IN g.data[k] = IF x.data[k] = At(args.out, c) THEN At(args.out_grad, c)
                           ELSE 0
       /\ (x.dims = <<3>> /\ x.data = <<3, 3, 1>>) =>
            g.data = <<args.out_grad.data[1], args.out_grad.data[1], 0>>

\* C8 witness: x = [3,3,1] reduced to 3; positions 0 and 1 hold out_grad.
MaxGradRoutesToEveryMaximumWitness ==
  /\ pc = "done"
  /\ rule = "max_grad"
  /\ "x_grad" \in req
  /\ args.x = [dims |-> <<3>>, data |-> <<3, 3, 1>>]
  /\ args.out.data = <<3>>
  /\ args.out_grad.data = <<5>>
  /\ res["x_grad"].data = <<5, 5, 0>>

NextMax == Value_max_grad

SpecMax == Init /\ [][NextMax]_vars

(***************************************************************************)
(* dropout_grad on values (lines 677-704).  The gradient's elements are    *)
(* exact rationals <<numerator, denominator>> in lowest terms; out_grad    *)
(* and mask hold integers.                                                 *)
(***************************************************************************)
DMaxLen == 4      \* dropout tensors are vectors of 1..DMaxLen elements

\* dropout probabilities p
PVals == {<<0, 1>>, <<1, 4>>, <<1, 2>>, <<1, 1>>}

\* the mode string: the two documented values and one that is neither
DropoutModes == {"upscale_in_train", "downscale_in_infer", "unknown"}

Abs(n) == IF n < 0 THEN -n ELSE n

RECURSIVE GCD(_, _)
GCD(a, b) == IF b = 0 THEN a ELSE GCD(b, a % b)

\* n/d in lowest terms, d > 0
Rat(n, d) == LET g == GCD(Abs(n), d) IN <<n \div g, d \div g>>

RMul(a, b) == Rat(a[1] * b[1], a[2] * b[2])

RSub(a, b) == Rat(a[1] * b[2] - b[1] * a[2], a[2] * b[2])

\* 1 / a, for a > 0
RInv(a) == Rat(a[2], a[1])

\* t * s elementwise, t of integers, s a rational scalar
MulScalar(t, s) ==
  [dims |-> t.dims, data |-> [k \in 1..Numel(t.dims) |-> RMul(<<t.data[k], 1>>, s)]]

\* a * b elementwise, two integer tensors of the same dims
Mul(a, b) ==
  [dims |-> a.dims, data |-> [k \in 1..Numel(a.dims) |-> a.data[k] * b.data[k]]]

\* Faulty variant of UpscaleFactor: the factor is not inverted.
UpscaleFactorNotInverted(p) == RSub(<<1, 1>>, p)

\* the factor given to scale<T> on the training path: 1.0 / (1.0 - p)
UpscaleFactor(p) == RInv(RSub(<<1, 1>>, p))

dropout_grad_value(mask, out_grad, p, is_test, mode) ==
  IF is_test
  THEN IF mode = "upscale_in_train"
       THEN MulScalar(out_grad, <<1, 1>>)                    \* by_pass
       ELSE MulScalar(out_grad, RSub(<<1, 1>>, p))
  ELSE IF mode = "upscale_in_train"
       THEN IF p = <<1, 1>>
            THEN MulScalar(out_grad, <<0, 1>>)               \* scale(out_grad, 0.0)
            ELSE MulScalar(Mul(out_grad, mask), UpscaleFactor(p))
       ELSE MulScalar(Mul(out_grad, mask), <<1, 1>>)

Value_dropout_grad ==
  /\ pc = "idle"
  /\ \E n \in 1..DMaxLen : \E mask \in Tensors(<<n>>, {0, 1}) :
     \E out_grad \in Tensors(<<n>>, GVals) : \E p \in PVals :
     \E is_test \in BOOLEAN : \E mode \in DropoutModes :
     \E r \in SUBSET {"x_grad"} :
       Evaluate("dropout_grad",
                [mask |-> mask, out_grad |-> out_grad, p |-> p,
                 is_test |-> is_test, mode |-> mode],
                {"x_grad"}, r,
                [s \in r |-> dropout_grad_value(mask, out_grad, p, is_test, mode)])

\* C7: dropout_grad writes, per element with g = out_grad, m = mask, p = pn/pd:
\* test and upscale_in_train: g; test and any other mode: g*(1-p); train and
\* upscale_in_train: 0 when p = 1, m*g/(1-p) when p < 1; train and any other
\* mode: m*g.  With p = 1/2, mask = [1,0,1,1] and upscale_in_train that is
\* [2*g0, 0, 2*g2, 2*g3] in training and [g0,g1,g2,g3] in test.
DropoutFiveOutcomes ==
  (pc = "done" /\ rule = "dropout_grad" /\ "x_grad" \in req) =>
    LET w == res["x_grad"]
        pn == args.p[1]
        pd == args.p[2]
        up == args.mode = "upscale_in_train"
    IN /\ w.dims = args.out_grad.dims
       /\ \A k \in 1..Numel(w.dims) :
            LET g == args.out_grad.data[k]
                m == args.mask.data[k]
                n == w.data[k][1]
                d == w.data[k][2]
            IN /\ d > 0
               /\ (args.is_test /\ up) => n = g * d
               /\ (args.is_test /\ ~up) => n * pd = g * (pd - pn) * d
               /\ (~args.is_test /\ up /\ pn = pd) => n = 0
               /\ (~args.is_test /\ up /\ pn < pd) => n * (pd - pn) = m * g * pd * d
               /\ (~args.is_test /\ ~up) => n = m * g * d
       /\ (args.p = <<1, 2>> /\ args.mask.data = <<1, 0, 1, 1>> /\ up) =>
            LET g == args.out_grad.data
            IN w.data = IF args.is_test
                        THEN <<<<g[1], 1>>, <<g[2], 1>>, <<g[3], 1>>, <<g[4], 1>>>>
                        ELSE <<<<2 * g[1], 1>>, <<0, 1>>, <<2 * g[3], 1>>,
                               <<2 * g[4], 1>>>>

\* C7 witness: the training call of the example, with its doubled gradient.
DropoutFiveOutcomesWitness ==
  /\ pc = "done"
  /\ rule = "dropout_grad"
  /\ "x_grad" \in req
  /\ ~args.is_test
  /\ args.mode = "upscale_in_train"
  /\ args.p = <<1, 2>>
  /\ args.mask.data = <<1, 0, 1, 1>>
  /\ args.out_grad.data = <<2, 5, 5, 2>>
  /\ res["x_grad"].data = <<<<4, 1>>, <<0, 1>>, <<10, 1>>, <<4, 1>>>>

NextDropout == Value_dropout_grad

SpecDropout == Init /\ [][NextDropout]_vars

(***************************************************************************)
(* topk_grad on values (lines 1235-1254).                                  *)
(***************************************************************************)
\* c with its entry on (0-based) axis ax replaced by v
WithAxis(c, ax, v) == [j \in 1..Len(c) |-> IF j = ax + 1 THEN v ELSE c[j]]

\* put_along_axis(arr, indices, values, axis): for every coordinate c of
\* indices, in row-major order, arr[c with c[axis] := indices[c]] := values[c]
put_along_axis(arr, indices, values, axis) ==
  LET ax == IF axis < 0 THEN axis + Len(arr.dims) ELSE axis
      RECURSIVE Put(_, _)
      Put(data, k) ==
        IF k > Numel(indices.dims) THEN data
        ELSE LET c == Coord(k - 1, indices.dims)
                 tgt == FlatFrom(WithAxis(c, ax, indices.data[k]), arr.dims, 1) + 1
             IN Put([data EXCEPT ![tgt] = values.data[k]], k + 1)
  IN [dims |-> arr.dims, data |-> Put(arr.data, 1)]

\* Faulty variant of topk_grad_value: an equality mask against the selected
\* values, so every position holding a selected value receives the gradient.
topk_grad_by_mask(x, indices, out_grad, k, axis, largest, sorted) ==
  IF Len(x.dims) = 0
  THEN out_grad
  ELSE LET ax == IF axis < 0 THEN axis + Len(x.dims) ELSE axis
           Hit(c) == {m \in 1..Numel(indices.dims) :
                        /\ WithAxis(Coord(m - 1, indices.dims), ax, 0) = WithAxis(c, ax, 0)
                        /\ At(x, WithAxis(c, ax, indices.data[m])) = At(x, c)}
       IN [dims |-> x.dims,
           data |-> [n \in 1..Numel(x.dims) |->
                       LET h == Hit(Coord(n - 1, x.dims))
                       IN IF h = {} THEN 0
                          ELSE out_grad.data[CHOOSE m \in h : \A m2 \in h : m <= m2]]]

topk_grad_value(x, indices, out_grad, k, axis, largest, sorted) ==
  IF Len(x.dims) = 0
  THEN out_grad                                              \* by_pass
  ELSE LET zero_tensor == Full(x.dims, 0)
       IN put_along_axis(zero_tensor, indices, out_grad, axis)

\* The index tensors a forward topk(x, k, axis, largest, sorted) can return:
\* along the axis, k distinct positions holding the k extremal values (any
\* of the tied positions), in value order when sorted.
TopkIndices(x, k, axis, largest, sorted) ==
  LET ax == IF axis < 0 THEN axis + Len(x.dims) ELSE axis
      ext == x.dims[ax + 1]
      idims == WithAxis(x.dims, ax, k)
      Better(u, v) == IF largest THEN u >= v ELSE u <= v
      XAt(c, pos) == At(x, WithAxis(c, ax, pos))
      Sel(I, c, j) == At(I, WithAxis(c, ax, j))
      \* one coordinate per lane along the axis
      lanes == {c \in {Coord(n - 1, idims) : n \in 1..Numel(idims)} : c[ax + 1] = 0}
  IN {I \in Tensors(idims, 0..(ext - 1)) :
        \A c \in lanes :
          LET chosen == {Sel(I, c, j) : j \in 0..(k - 1)}
          IN /\ Cardinality(chosen) = k
             /\ \A u \in chosen : \A v \in (0..(ext - 1)) \ chosen :
                    Better(XAt(c, u), XAt(c, v))
             /\ sorted =>
                  \A j1, j2 \in 0..(k - 1) :
                     j1 < j2 => Better(XAt(c, Sel(I, c, j1)), XAt(c, Sel(I, c, j2)))}

Value_topk_grad ==
  /\ pc = "idle"
  /\ \E d \in VShapes \ {<<>>} : \E x \in Tensors(d, XVals) :
     \E axis \in (-Len(d))..(Len(d) - 1) : \E largest, sorted \in BOOLEAN :
       LET ax == IF axis < 0 THEN axis + Len(d) ELSE axis
       IN \E k \in 1..d[ax + 1] :
          \E indices \in TopkIndices(x, k, axis, largest, sorted) :
          \E out_grad \in GradTensors(indices.dims) :
          \E r \in SUBSET {"x_grad"} :
            Evaluate("topk_grad",
                     [x |-> x, indices |-> indices, out_grad |-> out_grad, k |-> k,
                      axis |-> axis, largest |-> largest, sorted |-> sorted],
                     {"x_grad"}, r,
                     [s \in r |-> topk_grad_value(x, indices, out_grad, k, axis,
                                                  largest, sorted)])

\* a zero-dimensional x: topk returns the value itself with index 0
Value_topk_grad_0d ==
  /\ pc = "idle"
  /\ \E x \in Tensors(<<>>, XVals) : \E out_grad \in GradTensors(<<>>) :
     \E axis \in {-1, 0} : \E largest, sorted \in BOOLEAN :
     \E r \in SUBSET {"x_grad"} :
       Evaluate("topk_grad",
                [x |-> x, indices |-> Full(<<>>, 0), out_grad |-> out_grad, k |-> 1,
                 axis |-> axis, largest |-> largest, sorted |-> sorted],
                {"x_grad"}, r,
                [s \in r |-> topk_grad_value(x, Full(<<>>, 0), out_grad, 1, axis,
                                             largest, sorted)])

\* entries of indices that name position n (1-based offset) of x
TopkHits(n) ==
  LET x == args.x
      ax == IF args.axis < 0 THEN args.axis + Len(x.dims) ELSE args.axis
  IN {m \in 1..Numel(args.indices.dims) :
        WithAxis(Coord(m - 1, args.indices.dims), ax, args.indices.data[m])
          = Coord(n - 1, x.dims)}

\* C9 as stated: with k = 1 every position of x equal to the selected
\* extremal value of its lane receives the lane's out_grad, every other
\* position zero.
TopkGradRoutesToEveryTie ==
  (pc = "done" /\ rule = "topk_grad" /\ "x_grad" \in req
     /\ Len(args.x.dims) > 0 /\ args.k = 1) =>
    LET x == args.x
        ax == IF args.axis < 0 THEN args.axis + Len(x.dims) ELSE args.axis
    IN \A n \in 1..Numel(x.dims) :
         LET lane == WithAxis(Coord(n - 1, x.dims), ax, 0)
             sel == At(args.indices, lane)
         IN res["x_grad"].data[n]
              = IF x.data[n] = At(x, WithAxis(lane, ax, sel))
                THEN At(args.out_grad, lane) ELSE 0

\* C9: topk_grad gives x's shape; the position each entry of indices names
\* receives the matching entry of out_grad and every position no entry
\* names receives zero, tied or not; a zero-dimensional x receives out_grad.
TopkGradScattersToIndices ==
  (pc = "done" /\ rule = "topk_grad" /\ "x_grad" \in req) =>
    LET x == args.x
        g == res["x_grad"]
    IN IF Len(x.dims) = 0 THEN g = args.out_grad
       ELSE /\ g.dims = x.dims
            /\ \A n \in 1..Numel(x.dims) :
                 /\ Cardinality(TopkHits(n)) <= 1
                 /\ TopkHits(n) = {} => g.data[n] = 0
                 /\ \A m \in TopkHits(n) : g.data[n] = args.out_grad.data[m]

\* C9 witness: x = [3,3,1], k = 1, index 0 selected; position 1 ties and
\* receives zero.
TopkGradScattersToIndicesWitness ==
  /\ pc = "done"
  /\ rule = "topk_grad"
  /\ "x_grad" \in req
  /\ args.x = [dims |-> <<3>>, data |-> <<3, 3, 1>>]
  /\ args.k = 1
  /\ args.largest
  /\ args.indices.data = <<0>>
  /\ args.out_grad.data = <<5>>
  /\ res["x_grad"].data = <<5, 0, 0>>

NextTopk == Value_topk_grad \/ Value_topk_grad_0d

SpecTopk == Init /\ [][NextTopk]_vars

(***************************************************************************)
(* maximum_grad (lines 825-868) and minimum_grad (lines 1309-1352) on      *)
(* values.                                                                 *)
(***************************************************************************)
\* multiply<T>(a, b) / a * b, with broadcasting
Multiply(a, b) ==
  LET d == BroadcastTwoDims(a.dims, b.dims)
      ea == Expand(a, d)
      eb == Expand(b, d)
  IN [dims |-> d, data |-> [k \in 1..Numel(d) |-> ea.data[k] * eb.data[k]]]

RECURSIVE SumSet(_, _)
SumSet(f, S) ==
  IF S = {} THEN 0
  ELSE LET i == CHOOSE i2 \in S : TRUE IN f[i] + SumSet(f, S \ {i})

\* sum<T>(t, axes, dtype, keepdim) over a non-empty list of axes
Sum(t, axes, keepdim) ==
  LET A == {axes[i] : i \in 1..Len(axes)}
      od == ReducedDims(t.dims, A, keepdim)
  IN [dims |-> od,
      data |-> [k \in 1..Numel(od) |->
                  SumSet(t.data,
                         {i \in 1..Numel(t.dims) :
                            FlatFrom(GroupCoord(Coord(i - 1, t.dims), A, keepdim),
                                     od, 1) = k - 1})]]

\* the "Maybe need reduce here" tail on values
ReduceBackValue(contribution, own_dims, other_dims) ==
  IF own_dims # other_dims
  THEN LET reduce_dim == get_reduce_dims(own_dims, other_dims)
       IN IF Len(reduce_dim) = 0
          THEN contribution
          ELSE Reshape(Sum(contribution, reduce_dim, FALSE), own_dims)
  ELSE contribution

\* Faulty variant of MaximumXMask: the comparison is not strict.
MaximumXMaskNotStrict(xv, yv) == IF xv >= yv THEN 1 ELSE 0

\* cast<T>(greater_than<T>(x, y), out_grad.dtype()), per element
MaximumXMask(xv, yv) == IF xv > yv THEN 1 ELSE 0

\* cast<T>(less_equal<T>(x, y), out_grad.dtype()), per element
MaximumYMask(xv, yv) == IF xv <= yv THEN 1 ELSE 0

\* cast<T>(less_than<T>(x, y), out_grad.dtype()), per element
MinimumXMask(xv, yv) == IF xv < yv THEN 1 ELSE 0

\* cast<T>(greater_equal<T>(x, y), out_grad.dtype()), per element
MinimumYMask(xv, yv) == IF xv >= yv THEN 1 ELSE 0

maximum_grad_value(x, y, out_grad, r) ==
  [s \in r |->
     IF s = "x_grad"
     THEN LET d == BroadcastTwoDims(x.dims, y.dims)
              ex == Expand(x, d)
              ey == Expand(y, d)
              x_tmp == [dims |-> d,
                        data |-> [k \in 1..Numel(d) |->
                                    MaximumXMask(ex.data[k], ey.data[k])]]
              dx_res == Multiply(out_grad, x_tmp)
          IN ReduceBackValue(dx_res, x.dims, y.dims)
     ELSE LET d == BroadcastTwoDims(x.dims, y.dims)
              ex == Expand(x, d)
              ey == Expand(y, d)
              y_tmp == [dims |-> d,
                        data |-> [k \in 1..Numel(d) |->
                                    MaximumYMask(ex.data[k], ey.data[k])]]
              dy_res == Multiply(out_grad, y_tmp)
          IN ReduceBackValue(dy_res, y.dims, x.dims)]

minimum_grad_value(x, y, out_grad, r) ==
  [s \in r |->
     IF s = "x_grad"
     THEN LET d == BroadcastTwoDims(x.dims, y.dims)
              ex == Expand(x, d)
              ey == Expand(y, d)
              x_tmp == [dims |-> d,
                        data |-> [k \in 1..Numel(d) |->
                                    MinimumXMask(ex.data[k], ey.data[k])]]
              dx_res == Multiply(out_grad, x_tmp)
          IN ReduceBackValue(dx_res, x.dims, y.dims)
     ELSE LET d == BroadcastTwoDims(x.dims, y.dims)
              ex == Expand(x, d)
              ey == Expand(y, d)
              y_tmp == [dims |-> d,
                        data |-> [k \in 1..Numel(d) |->
                                    MinimumYMask(ex.data[k], ey.data[k])]]
              dy_res == Multiply(out_grad, y_tmp)
          IN ReduceBackValue(dy_res, y.dims, x.dims)]

\* broadcast-compatible pairs of value-layer shapes
VShapePairs ==
  {p \in VShapes \X VShapes :
     Compatible(p[1], p[2]) /\ Numel(BroadcastTwoDims(p[1], p[2])) <= VMaxNumel}

Value_maximum_grad ==
  /\ pc = "idle"
  /\ \E p \in VShapePairs : \E x \in Tensors(p[1], XVals) : \E y \in Tensors(p[2], XVals) :
     \E out_grad \in GradTensors(BroadcastTwoDims(p[1], p[2])) :
     \E r \in SUBSET {"x_grad", "y_grad"} :
       Evaluate("maximum_grad", [x |-> x, y |-> y, out_grad |-> out_grad],
                {"x_grad", "y_grad"}, r, maximum_grad_value(x, y, out_grad, r))

Value_minimum_grad ==
  /\ pc = "idle"
  /\ \E p \in VShapePairs : \E x \in Tensors(p[1], XVals) : \E y \in Tensors(p[2], XVals) :
     \E out_grad \in GradTensors(BroadcastTwoDims(p[1], p[2])) :
     \E r \in SUBSET {"x_grad", "y_grad"} :
       Evaluate("minimum_grad", [x |-> x, y |-> y, out_grad |-> out_grad],
                {"x_grad", "y_grad"}, r, minimum_grad_value(x, y, out_grad, r))

\* C10: maximum_grad and minimum_grad on x and y of equal shape: x_grad is
\* out_grad where x > y (minimum: x < y) and zero elsewhere, y_grad is
\* out_grad where x <= y (minimum: x >= y) and zero elsewhere; so exactly one
\* of them holds out_grad at every element, their sum is out_grad, and a tie
\* goes to y alone.
ExactlyOneInputReceives ==
  (pc = "done" /\ rule \in {"maximum_grad", "minimum_grad"}
     /\ args.x.dims = args.y.dims) =>
    \A k \in 1..Numel(args.x.dims) :
      LET xv == args.x.data[k]
          yv == args.y.data[k]
          og == args.out_grad.data[k]
          toX == IF rule = "maximum_grad" THEN xv > yv ELSE xv < yv
      IN /\ "x_grad" \in req =>
              /\ res["x_grad"].dims = args.x.dims
              /\ res["x_grad"].data[k] = IF toX THEN og ELSE 0
         /\ "y_grad" \in req =>
              /\ res["y_grad"].dims = args.y.dims
              /\ res["y_grad"].data[k] = IF toX THEN 0 ELSE og
         /\ req = {"x_grad", "y_grad"} =>
              /\ res["x_grad"].data[k] + res["y_grad"].data[k] = og
              /\ (res["x_grad"].data[k] = 0) # (res["y_grad"].data[k] = 0)
              /\ xv = yv => (res["x_grad"].data[k] = 0 /\ res["y_grad"].data[k] = og)

\* C10 witness: maximum_grad on a tie next to an element where x wins.
ExactlyOneInputReceivesWitness ==
  /\ pc = "done"
  /\ rule = "maximum_grad"
  /\ req = {"x_grad", "y_grad"}
  /\ args.x = [dims |-> <<2>>, data |-> <<3, 3>>]
  /\ args.y = [dims |-> <<2>>, data |-> <<3, 1>>]
  /\ args.out_grad.data = <<5, 8>>
  /\ res["x_grad"].data = <<0, 8>>
  /\ res["y_grad"].data = <<5, 0>>

NextBinary == Value_maximum_grad \/ Value_minimum_grad

SpecBinary == Init /\ [][NextBinary]_vars

(***************************************************************************)
(* The shapes written by the elementwise binary rules.  A written tensor   *)
(* is [dims, axes, ok]: its dims, the reduce axes used for it (<<>> when   *)
(* no reduction ran) and whether the reshape, if any, was given a tensor   *)
(* with the target's number of elements.                                   *)
(***************************************************************************)
\* dims of sum<T>(t, axes, dtype, false) for a tensor of dims d
SumDims(d, axes) == ReducedDims(d, {axes[i] : i \in 1..Len(axes)}, FALSE)

\* Faulty variant of ReduceBackShape: the summed tensor is written without
\* the reshape.
ReduceBackShapeNoReshape(contribution_dims, own_dims, other_dims) ==
  IF own_dims # other_dims
  THEN LET reduce_dim == get_reduce_dims(own_dims, other_dims)
       IN IF Len(reduce_dim) = 0
          THEN [dims |-> contribution_dims, axes |-> <<>>, ok |-> TRUE]
          ELSE [dims |-> SumDims(contribution_dims, reduce_dim),
                axes |-> reduce_dim, ok |-> TRUE]
  ELSE [dims |-> contribution_dims, axes |-> <<>>, ok |-> TRUE]

\* the "Maybe need reduce here" tail, on dims
ReduceBackShape(contribution_dims, own_dims, other_dims) ==
  IF own_dims # other_dims
  THEN LET reduce_dim == get_reduce_dims(own_dims, other_dims)
       IN IF Len(reduce_dim) = 0
          THEN [dims |-> contribution_dims, axes |-> <<>>, ok |-> TRUE]
          ELSE [dims |-> own_dims, axes |-> reduce_dim,
                ok |-> Numel(SumDims(contribution_dims, reduce_dim)) = Numel(own_dims)]
  ELSE [dims |-> contribution_dims, axes |-> <<>>, ok |-> TRUE]

\* the tail of multiply_grad, on dims: the axes come from the unreduced
\* contribution, the reshape runs only when the ranks differ
ReduceFromOutShape(unreduced_dims, own_dims) ==
  IF unreduced_dims # own_dims
  THEN LET axes == get_reduce_dims_from_out(unreduced_dims, own_dims)
           reduced == SumDims(unreduced_dims, axes)
       IN IF Len(axes) = 0
          THEN [dims |-> unreduced_dims, axes |-> <<>>, ok |-> TRUE]
          ELSE IF Len(reduced) # Len(own_dims)
               THEN [dims |-> own_dims, axes |-> axes,
                     ok |-> Numel(reduced) = Numel(own_dims)]
               ELSE [dims |-> reduced, axes |-> axes, ok |-> TRUE]
  ELSE [dims |-> unreduced_dims, axes |-> <<>>, ok |-> TRUE]

\* the rules whose two contributions have the broadcast dims and end in the
\* "Maybe need reduce here" tail, with the names of their x and y slots
ReduceBackRules ==
  {<<"add_grad", "dx", "dy">>, <<"subtract_grad", "dx", "dy">>,
   <<"divide_grad", "dx", "dy">>, <<"elementwise_pow_grad", "dx", "dy">>,
   <<"maximum_grad", "x_grad", "y_grad">>, <<"minimum_grad", "x_grad", "y_grad">>}

\* add/subtract: out_grad (or its negation); divide, elementwise_pow: a
\* product with out_grad; maximum, minimum: out_grad * mask.  All have the
\* dims of out_grad, the broadcast of x and y.
binary_grad_shape(a, xs, ys, r) ==
  LET out_dims == BroadcastTwoDims(a.xd, a.yd)
  IN [s \in r |-> IF s = xs THEN ReduceBackShape(out_dims, a.xd, a.yd)
                  ELSE ReduceBackShape(out_dims, a.yd, a.xd)]

\* multiply_grad: x_grad_unreduce = out_grad * y, y_grad_unreduce = out_grad * x
multiply_grad_shape(a, r) ==
  LET out_dims == BroadcastTwoDims(a.xd, a.yd)
      x_grad_unreduce == BroadcastTwoDims(out_dims, a.yd)
      y_grad_unreduce == BroadcastTwoDims(out_dims, a.xd)
  IN [s \in r |-> IF s = "x_grad" THEN ReduceFromOutShape(x_grad_unreduce, a.xd)
                  ELSE ReduceFromOutShape(y_grad_unreduce, a.yd)]

Shape_binary_grad ==
  /\ pc = "idle"
  /\ \E n \in ReduceBackRules : \E a \in BinaryArgs : \E r \in SUBSET {n[2], n[3]} :
       Evaluate(n[1], a, {n[2], n[3]}, r, binary_grad_shape(a, n[2], n[3], r))

Shape_multiply_grad ==
  /\ pc = "idle"
  /\ \E a \in BinaryArgs : \E r \in SUBSET {"x_grad", "y_grad"} :
       Evaluate("multiply_grad", a, {"x_grad", "y_grad"}, r, multiply_grad_shape(a, r))

NextShape == Shape_binary_grad \/ Shape_multiply_grad

SpecShape == Init /\ [][NextShape]_vars

\* the slot of x among the two slots of a binary rule
XSlotOf(S) == IF "dx" \in S THEN "dx" ELSE "x_grad"

\* C11: for each elementwise binary rule and each broadcast-compatible pair
\* of shapes, a written x gradient has x's dims and a written y gradient y's
\* dims (every reshape being given the right number of elements); the reduce
\* axes used for an input are empty exactly when the input's dims are the
\* broadcast dims, and hold every left-padded leading axis and every axis
\* where the input has extent 1 and the broadcast extent is greater.
BroadcastGradShapes ==
  pc = "done" =>
    \A s \in req :
      LET own == IF s = XSlotOf(slots) THEN args.xd ELSE args.yd
          out == BroadcastTwoDims(args.xd, args.yd)
          bat == Len(out) - Len(own)
          A == {res[s].axes[i] : i \in 1..Len(res[s].axes)}
      IN /\ res[s].ok
         /\ res[s].dims = own
         /\ (A = {}) <=> (own = out)
         /\ \A i \in 0..(Len(out) - 1) :
              (i < bat \/ (own[i - bat + 1] = 1 /\ out[i + 1] > 1)) => i \in A

\* C11 witness: divide_grad on x of dims [2,1] and y of dims [2]: dx is
\* summed over axis 1 and reshaped, dy over axis 0.
BroadcastGradShapesWitness ==
  /\ pc = "done"
  /\ rule = "divide_grad"
  /\ req = {"dx", "dy"}
  /\ args.xd = <<2, 1>>
  /\ args.yd = <<2>>
  /\ res["dx"] = [dims |-> <<2, 1>>, axes |-> <<1>>, ok |-> TRUE]
  /\ res["dy"] = [dims |-> <<2>>, axes |-> <<0>>, ok |-> TRUE]

(***************************************************************************)
(* transpose_grad on values (lines 271-288).                               *)
(***************************************************************************)
TMaxRank == 3     \* ranks 0..TMaxRank: the smallest rank with a permutation
                  \* that is not its own inverse is 3

TShapes ==
  {d \in UNION {[1..n -> 1..VMaxExtent] : n \in 0..TMaxRank} : Numel(d) <= VMaxNumel}

\* the perm arrays of rank n: every permutation of 0..n-1, each entry written
\* as it is or counted from the end
Perms(n) ==
  {p \in [1..n -> (-n)..(n - 1)] :
     \A i, j \in 1..n : i # j => (p[i] + n) % n # (p[j] + n) % n}

\* perm with its negative entries counted from the end
NormalizedPerm(perm) ==
  [i \in 1..Len(perm) |-> IF perm[i] < 0 THEN perm[i] + Len(perm) ELSE perm[i]]

\* transpose<T>(t, perm): axis i of the result is axis perm[i] of t
Transpose(t, perm) ==
  LET p == NormalizedPerm(perm)
      od == [i \in 1..Len(p) |-> t.dims[p[i] + 1]]
      \* position in p of source axis j (0-based)
      Pos(j) == CHOOSE i \in 1..Len(p) : p[i] = j
  IN [dims |-> od,
      data |-> [k \in 1..Numel(od) |->
                  LET c == Coord(k - 1, od)
                  IN At(t, [j \in 1..Len(p) |-> c[Pos(j - 1)]])]]

\* Faulty variant of reverse_perm: perm is normalized but not inverted.
reverse_perm_not_inverted(perm) == NormalizedPerm(perm)

\* the loop of lines 278-284: reverse_perm starts as a copy of perm and entry
\* perm[i] (plus the rank when negative) is set to i, for i = 0, 1, ...
reverse_perm(perm) ==
  LET RECURSIVE Loop(_, _)
      Loop(rp, i) ==
        IF i >= Len(perm) THEN rp
        ELSE LET tgt == IF perm[i + 1] >= 0 THEN perm[i + 1]
                        ELSE perm[i + 1] + Len(perm)
             IN Loop([rp EXCEPT ![tgt + 1] = i], i + 1)
  IN Loop(perm, 0)

transpose_grad_value(grad_out, perm) == Transpose(grad_out, reverse_perm(perm))

\* grad_out is the forward output transpose(x, perm) of a tensor x
Value_transpose_grad ==
  /\ pc = "idle"
  /\ \E d \in TShapes : \E x \in GradTensors(d) \cup {Full(d, 1)} :
     \E perm \in Perms(Len(d)) : \E r \in SUBSET {"grad_x"} :
       LET grad_out == Transpose(x, perm)
       IN Evaluate("transpose_grad", [x |-> x, perm |-> perm, grad_out |-> grad_out],
                   {"grad_x"}, r,
                   [s \in r |-> transpose_grad_value(grad_out, perm)])

NextTranspose == Value_transpose_grad

SpecTranspose == Init /\ [][NextTranspose]_vars

\* C12: for every perm, negative entries included, reverse_perm is the
\* inverse of the normalized perm, and transpose_grad applied to
\* transpose(x, perm) with the same perm gives back x, dims and every element.
TransposeGradInvertsPerm ==
  (pc = "done" /\ rule = "transpose_grad") =>
    LET p == NormalizedPerm(args.perm)
        rp == reverse_perm(args.perm)
        n == Len(p)
    IN /\ Len(rp) = n
       /\ \A i \in 1..n : rp[i] \in 0..(n - 1) /\ rp[p[i] + 1] = i - 1
                          /\ p[rp[i] + 1] = i - 1
       /\ "grad_x" \in req => res["grad_x"] = args.x

\* C12 witness: a rank-3 cyclic perm with a negative entry, which is not its
\* own inverse, on a tensor whose elements move.
TransposeGradInvertsPermWitness ==
  /\ pc = "done"
  /\ rule = "transpose_grad"
  /\ "grad_x" \in req
  /\ args.perm = <<1, -1, 0>>
  /\ args.x = [dims |-> <<2, 2, 1>>, data |-> <<5, 8, 11, 14>>]
  /\ args.grad_out = [dims |-> <<2, 1, 2>>, data |-> <<5, 11, 8, 14>>]
  /\ reverse_perm(args.perm) = <<2, 0, 1>>
  /\ res["grad_x"] = args.x

(***************************************************************************)
(* concat_grad (lines 346-369) and split_grad (lines 371-379) on values.   *)
(***************************************************************************)
\* slice<T>: the window starts[j] <= c[j] < ends[j] on every axis j
Slice(t, starts, ends) ==
  LET od == [j \in 1..Len(t.dims) |-> ends[j] - starts[j]]
  IN [dims |-> od,
      data |-> [k \in 1..Numel(od) |->
                  LET c == Coord(k - 1, od)
                  IN At(t, [j \in 1..Len(od) |-> c[j] + starts[j]])]]

RECURSIVE SumTo(_, _)
\* sections[1] + ... + sections[i]
SumTo(sections, i) == IF i = 0 THEN 0 ELSE sections[i] + SumTo(sections, i - 1)

\* split<T>(t, sections, axis): consecutive sections along a non-negative axis
Split(t, sections, axis) ==
  [i \in 1..Len(sections) |->
     Slice(t,
           [j \in 1..Len(t.dims) |-> IF j = axis + 1 THEN SumTo(sections, i - 1) ELSE 0],
           [j \in 1..Len(t.dims) |-> IF j = axis + 1 THEN SumTo(sections, i)
                                     ELSE t.dims[j]])]

\* concat<T>(ts, axis): the tensors one after the other along the axis, a
\* negative axis counted from the end
Concat(ts, axis) ==
  LET rank == Len(ts[1].dims)
      ax == IF axis < 0 THEN axis + rank ELSE axis
      sections == [i \in 1..Len(ts) |-> ts[i].dims[ax + 1]]
      od == [j \in 1..rank |-> IF j = ax + 1 THEN SumTo(sections, Len(ts))
                               ELSE ts[1].dims[j]]
      \* the tensor holding offset v along the axis
      Piece(v) == CHOOSE i \in 1..Len(ts) : SumTo(sections, i - 1) <= v
                                            /\ v < SumTo(sections, i)
  IN [dims |-> od,
      data |-> [k \in 1..Numel(od) |->
                  LET c == Coord(k - 1, od)
                      i == Piece(c[ax + 1])
                  IN At(ts[i], WithAxis(c, ax, c[ax + 1] - SumTo(sections, i - 1)))]]

\* Faulty variant of ConcatAxis: a negative axis is clamped, not counted from
\* the end.
ConcatAxisClampOnly(axis, rank) == IF axis > 0 THEN axis ELSE 0

\* lines 351-356: axis_value
ConcatAxis(axis, rank) ==
  LET axis_value == IF axis < 0 THEN axis + rank ELSE axis
  IN IF axis_value > 0 THEN axis_value ELSE 0

\* x: the dims of the inputs; r: the non-null entries of x_grad
concat_grad_value(x, out_grad, axis, r) ==
  LET rank == Len(x[1])
      axis_value == ConcatAxis(axis, rank)
      sections == [i \in 1..Len(x) |-> x[i][axis_value + 1]]
      x_grad_tmp == Split(out_grad, sections, axis_value)
  IN [s \in r |-> x_grad_tmp[CHOOSE i \in 1..Len(x) : XGradSlot(i - 1) = s]]

\* Faulty variant of split_grad_value: the gradients are joined last to first.
split_grad_reversed(out_grad, axis) ==
  Concat([i \in 1..Len(out_grad) |-> out_grad[Len(out_grad) + 1 - i]], axis)

split_grad_value(out_grad, axis) == Concat(out_grad, axis)

\* lists of 1..MaxInputs input dims of one rank >= 1 that agree off axis ax
ConcatInputs(rank, ax) ==
  {x \in UNION {[1..n -> {d \in VShapes : Len(d) = rank}] : n \in 1..MaxInputs} :
     \A i \in 1..Len(x) : \A j \in 1..rank : j # ax + 1 => x[i][j] = x[1][j]}

\* dims of concat(x, ax)
ConcatDims(x, ax) ==
  [j \in 1..Len(x[1]) |->
     IF j = ax + 1 THEN SumTo([i \in 1..Len(x) |-> x[i][ax + 1]], Len(x)) ELSE x[1][j]]

Value_concat_grad ==
  /\ pc = "idle"
  /\ \E rank \in 1..VMaxRank : \E axis \in (-rank)..(rank - 1) :
     \E x \in ConcatInputs(rank, (axis + rank) % rank) :
     \E out_grad \in GradTensors(ConcatDims(x, (axis + rank) % rank)) :
     \E r \in SUBSET {XGradSlot(i) : i \in 0..(Len(x) - 1)} :
       Evaluate("concat_grad", [x |-> x, out_grad |-> out_grad, axis |-> axis],
                {XGradSlot(i) : i \in 0..(Len(x) - 1)}, r,
                concat_grad_value(x, out_grad, axis, r))

\* split_grad given, as out_grad, the gradients a concat_grad call wrote into
\* all its slots, with the same axis
Value_split_grad ==
  /\ pc = "done"
  /\ rule = "concat_grad"
  /\ req = slots
  /\ \E r \in SUBSET {"x_grad"} :
       LET parts == [i \in 1..Len(args.x) |-> res[XGradSlot(i - 1)]]
       IN /\ pc' = "done2"
          /\ rule' = "split_grad"
          /\ args' = [out_grad |-> parts, axis |-> args.axis, concat_x |-> args.x,
                      concat_out_grad |-> args.out_grad]
          /\ slots' = {"x_grad"}
          /\ req' = r
          /\ res' = [s \in r |-> split_grad_value(parts, args.axis)]
          /\ UNCHANGED <<trace, outcome>>

NextConcat == Value_concat_grad \/ Value_split_grad

SpecConcat == Init /\ [][NextConcat]_vars

\* C13: concat_grad's effective axis is in [0, rank) for every axis in
\* [-rank, rank); the section lengths are the inputs' extents on it and sum
\* to out_grad's extent; every requested x_grad[i] has x[i]'s dims and holds
\* out_grad's section i; what a requested slot gets does not depend on which
\* other slots are null.
ConcatGradSections ==
  (pc = "done" /\ rule = "concat_grad") =>
    LET x == args.x
        rank == Len(x[1])
        ax == ConcatAxis(args.axis, rank)
        sections == [i \in 1..Len(x) |-> x[i][ax + 1]]
    IN /\ ax \in 0..(rank - 1)
       /\ ax = (IF args.axis < 0 THEN args.axis + rank ELSE args.axis)
       /\ SumTo(sections, Len(x)) = args.out_grad.dims[ax + 1]
       /\ DOMAIN res = req
       /\ \A i \in 1..Len(x) :
            XGradSlot(i - 1) \in req =>
              LET g == res[XGradSlot(i - 1)]
              IN /\ g.dims = x[i]
                 /\ \A k \in 1..Numel(g.dims) :
                      LET c == Coord(k - 1, g.dims)
                      IN g.data[k] = At(args.out_grad,
                                        WithAxis(c, ax, c[ax + 1] + SumTo(sections, i - 1)))
                 /\ g = concat_grad_value(x, args.out_grad, args.axis, slots)[XGradSlot(i - 1)]

\* C13 witness: two inputs of dims [2,1] and [2,2] joined on axis -1, only
\* x_grad[1] requested.
ConcatGradSectionsWitness ==
  /\ pc = "done"
  /\ rule = "concat_grad"
  /\ args.x = <<<<2, 1>>, <<2, 2>>>>
  /\ args.axis = -1
  /\ args.out_grad = [dims |-> <<2, 3>>, data |-> <<5, 8, 11, 14, 17, 20>>]
  /\ req = {XGradSlot(1)}
  /\ res[XGradSlot(1)] = [dims |-> <<2, 2>>, data |-> <<8, 11, 17, 20>>]

\* C14: split_grad applied, with the same axis, to the gradients concat_grad
\* wrote for all its inputs gives back concat_grad's out_grad, dims and every
\* element.
ConcatSplitRoundTrip ==
  (pc = "done2" /\ rule = "split_grad" /\ "x_grad" \in req) =>
    res["x_grad"] = args.concat_out_grad

\* C14 witness: the round trip of two inputs of different extent on axis 0.
ConcatSplitRoundTripWitness ==
  /\ pc = "done2"
  /\ rule = "split_grad"
  /\ "x_grad" \in req
  /\ args.concat_x = <<<<1, 2>>, <<2, 2>>>>
  /\ args.axis = -2
  /\ Len(args.out_grad) = 2
  /\ args.out_grad[1] = [dims |-> <<1, 2>>, data |-> <<5, 8>>]
  /\ args.out_grad[2].dims = <<2, 2>>
  /\ res["x_grad"] = args.concat_out_grad
  /\ res["x_grad"].dims = <<3, 2>>

(***************************************************************************)
(* sum_grad (lines 119-165) and prod_grad (lines 1256-1307) on values, and *)
(* the operand the three reduction rules hand to expand.  prod_grad's      *)
(* gradient holds exact rationals <<numerator, denominator>>.              *)
(***************************************************************************)
\* axis_: every axis when reduce_all, otherwise the list with negative
\* entries plus the rank
UnsqueezeAxesNotNormalized(axis, reduce_all, x_dim_size) ==
  IF reduce_all THEN [i \in 1..x_dim_size |-> i - 1]
  ELSE [i \in 1..Len(axis) |-> IF axis[i] < 0 THEN x_dim_size - 1 ELSE axis[i]]

UnsqueezeAxes(axis, reduce_all, x_dim_size) ==
  IF reduce_all THEN [i \in 1..x_dim_size |-> i - 1]
  ELSE [i \in 1..Len(axis) |-> IF axis[i] < 0 THEN axis[i] + x_dim_size ELSE axis[i]]

\* sum_grad: the tensor handed to expand<T>(., x_dim)
sum_grad_reshaped(x, out_grad, axis, keepdim, reduce_all_in) ==
  LET x_dim_size == Len(x.dims)
      reduce_all == ReduceAll(reduce_all_in, Len(axis), x_dim_size)
  IN IF x_dim_size = 1 THEN out_grad
     ELSE IF ~keepdim
          THEN LET axis_ == UnsqueezeAxes(axis, reduce_all, x_dim_size)
                   out_grad_shape == get_unsqueeze_dims(out_grad, axis_)
               IN Reshape(out_grad, out_grad_shape)
          ELSE out_grad

sum_grad_value(x, out_grad, axis, keepdim, reduce_all_in) ==
  Expand(sum_grad_reshaped(x, out_grad, axis, keepdim, reduce_all_in), x.dims)

\* prod_grad: the tensor out_grad becomes before .expand(x_dim); out is
\* reshaped to the same out_grad_shape
prod_grad_reshaped(x, t, axis, keep_dim, reduce_all_in) ==
  LET x_dim_size == Len(x.dims)
      reduce_all == ReduceAll(reduce_all_in, Len(axis), x_dim_size)
  IN IF x_dim_size = 1 THEN t
     ELSE IF ~keep_dim
          THEN LET axis_ == UnsqueezeAxes(axis, reduce_all, x_dim_size)
               IN Reshape(t, get_unsqueeze_dims(t, axis_))
          ELSE t

\* x_grad_tmp * out_tmp * (1 / x)
prod_grad_value(x, out, out_grad, axis, keep_dim, reduce_all_in) ==
  LET x_grad_tmp == Expand(prod_grad_reshaped(x, out_grad, axis, keep_dim, reduce_all_in),
                           x.dims)
      out_tmp == Expand(prod_grad_reshaped(x, out, axis, keep_dim, reduce_all_in), x.dims)
  IN [dims |-> x.dims,
      data |-> [k \in 1..Numel(x.dims) |->
                  RMul(RMul(<<x_grad_tmp.data[k], 1>>, <<out_tmp.data[k], 1>>),
                       RInv(<<x.data[k], 1>>))]]

\* max_grad: the tensor handed to expand<T>(., x_dim) (lines 1080-1100)
max_grad_reshaped(x, out_grad, axis, keepdim, reduce_all_in) ==
  LET x_dim_size == Len(x.dims)
      reduce_all == ReduceAll(reduce_all_in, Len(axis), x_dim_size)
  IN IF x_dim_size = 0 \/ x_dim_size = 1 \/ keepdim THEN out_grad
     ELSE LET axis_ == UnsqueezeAxes(axis, reduce_all, x_dim_size)
          IN Reshape(out_grad, get_unsqueeze_dims(out_grad, axis_))

RECURSIVE ProdSet(_, _)
ProdSet(f, S) ==
  IF S = {} THEN 1
  ELSE LET i == CHOOSE i2 \in S : TRUE IN f[i] * ProdSet(f, S \ {i})

\* prod(x, axis, keepdim)
ReduceProd(x, axis, keepdim) ==
  LET A == ReducedAxes(axis, Len(x.dims))
      od == ReducedDims(x.dims, A, keepdim)
  IN [dims |-> od,
      data |-> [k \in 1..Numel(od) |->
                  ProdSet(x.data,
                          {i \in 1..Numel(x.dims) :
                             FlatFrom(GroupCoord(Coord(i - 1, x.dims), A, keepdim),
                                      od, 1) = k - 1})]]

Value_sum_grad ==
  /\ pc = "idle"
  /\ \E d \in VShapes : \E axis \in AxisLists(Len(d)) :
     \E keepdim, reduce_all \in BOOLEAN :
       LET x == Full(d, 1)
           od == ReducedDims(d, ReducedAxes(axis, Len(d)), keepdim)
       IN \E out_grad \in GradTensors(od) : \E r \in SUBSET {"x_grad"} :
            Evaluate("sum_grad",
                     [x |-> x, out_grad |-> out_grad, axis |-> axis,
                      keepdim |-> keepdim, reduce_all |-> reduce_all],
                     {"x_grad"}, r,
                     [s \in r |-> sum_grad_value(x, out_grad, axis, keepdim, reduce_all)])

Value_prod_grad ==
  /\ pc = "idle"
  /\ \E d \in VShapes : \E x \in Tensors(d, XVals) :
     \E axis \in AxisLists(Len(d)) : \E keep_dim, reduce_all \in BOOLEAN :
       LET out == ReduceProd(x, axis, keep_dim)
       IN \E out_grad \in GradTensors(out.dims) : \E r \in SUBSET {"x_grad"} :
            Evaluate("prod_grad",
                     [x |-> x, out |-> out, out_grad |-> out_grad, axis |-> axis,
                      keepdim |-> keep_dim, reduce_all |-> reduce_all],
                     {"x_grad"}, r,
                     [s \in r |-> prod_grad_value(x, out, out_grad, axis, keep_dim,
                                                  reduce_all)])

NextReduce == Value_sum_grad \/ Value_prod_grad \/ Value_max_grad

SpecReduce == Init /\ [][NextReduce]_vars

\* the tensor the rule of the current call hands to expand
ReshapedOperand ==
  IF rule = "sum_grad"
  THEN sum_grad_reshaped(args.x, args.out_grad, args.axis, args.keepdim, args.reduce_all)
  ELSE IF rule = "prod_grad"
  THEN prod_grad_reshaped(args.x, args.out_grad, args.axis, args.keepdim, args.reduce_all)
  ELSE max_grad_reshaped(args.x, args.out_grad, args.axis, args.keepdim, args.reduce_all)

\* the rule went through get_unsqueeze_dims
WentThroughUnsqueeze ==
  /\ ~args.keepdim
  /\ Len(args.x.dims) # 1
  /\ rule = "max_grad" => Len(args.x.dims) # 0

\* t has x's dims and holds at every position the entry of out_grad for the
\* reduction group of the position (as n/1 when t holds rationals)
HoldsGroupEntry(t, rational) ==
  LET x == args.x
      A == ReducedAxes(args.axis, Len(x.dims))
  IN /\ t.dims = x.dims
     /\ \A k \in 1..Numel(x.dims) :
          LET e == At(args.out_grad, GroupCoord(Coord(k - 1, x.dims), A, args.keepdim))
          IN t.data[k] = IF rational THEN <<e, 1>> ELSE e

\* C18 as stated: for sum_grad, prod_grad and max_grad the gradient written
\* holds at every position the out_grad entry of the position's group.
ReduceGradHoldsGroupEntry ==
  (pc = "done" /\ rule \in {"sum_grad", "prod_grad", "max_grad"} /\ "x_grad" \in req) =>
    HoldsGroupEntry(res["x_grad"], rule = "prod_grad")

\* C18 amended: for sum_grad, prod_grad and max_grad, every rank, axis list
\* and keepdim: the unsqueeze-dims shape has extent 1 at every reduced
\* position and x's extent at every other one, the operand is expandable to
\* x's dims and its expansion holds at every position the out_grad entry of
\* the position's group; the gradient written has x's dims and is that entry
\* for sum_grad, that entry where x equals the group's maximum and 0 elsewhere
\* for max_grad, and that entry times out / x for prod_grad.
ReduceGradUnsqueezed ==
  (pc = "done" /\ rule \in {"sum_grad", "prod_grad", "max_grad"} /\ "x_grad" \in req) =>
    LET x == args.x
        n == Len(x.dims)
        A == ReducedAxes(args.axis, n)
        o == ReshapedOperand
        off == n - Len(o.dims)
        g == res["x_grad"]
        entry(k) == At(args.out_grad, GroupCoord(Coord(k - 1, x.dims), A, args.keepdim))
        outat(k) == At(args.out, GroupCoord(Coord(k - 1, x.dims), A, args.keepdim))
    IN /\ WentThroughUnsqueeze =>
            /\ Len(o.dims) = n
            /\ \A i \in 1..n : o.dims[i] = IF (i - 1) \in A THEN 1 ELSE x.dims[i]
            /\ o.data = args.out_grad.data
       /\ off >= 0
       /\ \A j \in 1..Len(o.dims) : o.dims[j] \in {1, x.dims[j + off]}
       /\ HoldsGroupEntry(Expand(o, x.dims), FALSE)
       /\ g.dims = x.dims
       /\ \A k \in 1..Numel(x.dims) :
            g.data[k] = IF rule = "sum_grad" THEN entry(k)
                        ELSE IF rule = "max_grad"
                        THEN (IF x.data[k] = outat(k) THEN entry(k) ELSE 0)
                        ELSE Rat(entry(k) * outat(k), x.data[k])

\* C18 witness: sum_grad of a [2,2] tensor reduced over axis -2 without
\* keepdim: out_grad [5,8] is reshaped to [1,2] and expanded to [5,8,5,8].
ReduceGradUnsqueezedWitness ==
  /\ pc = "done"
  /\ rule = "sum_grad"
  /\ "x_grad" \in req
  /\ args.x.dims = <<2, 2>>
  /\ args.axis = <<-2>>
  /\ ~args.keepdim
  /\ args.out_grad = [dims |-> <<2>>, data |-> <<5, 8>>]
  /\ ReshapedOperand.dims = <<1, 2>>
  /\ res["x_grad"] = [dims |-> <<2, 2>>, data |-> <<5, 8, 5, 8>>]

(***************************************************************************)
(* tile_grad on values (lines 1178-1199).                                  *)
(***************************************************************************)
TMaxRepeat == 2   \* entries of repeat_times are 1..TMaxRepeat

\* repeat_times vectors: shorter than, as long as, or longer than x's rank
RepeatTimes == UNION {[1..n -> 1..TMaxRepeat] : n \in 0..VMaxRank}

\* dims of tile(x, repeat_times): the shorter of the two is filled with 1
\* on the left
TileDims(xd, repeat_times) ==
  LET m == Max2(Len(xd), Len(repeat_times))
      px == PadLeft(xd, m)
      pr == PadLeft(repeat_times, m)
  IN [j \in 1..m |-> px[j] * pr[j]]

\* the (1-based) element of x that position k (1-based) of tile(x,
\* repeat_times) is a copy of
TileSource(k, xd, repeat_times) ==
  LET m == Max2(Len(xd), Len(repeat_times))
      px == PadLeft(xd, m)
      c == Coord(k - 1, TileDims(xd, repeat_times))
  IN FlatFrom([j \in 1..m |-> c[j] % px[j]], px, 1) + 1

\* a + b elementwise, two tensors of the same dims
Add(a, b) == [dims |-> a.dims, data |-> [k \in 1..Numel(a.dims) |-> a.data[k] + b.data[k]]]

\* result = full(split_arr[0].dims, 0); result = split_arr[j] + result
RECURSIVE SumSections(_, _)
SumSections(split_arr, j) ==
  IF j = 0 THEN Full(split_arr[1].dims, 0)
  ELSE Add(split_arr[j], SumSections(split_arr, j - 1))

\* the loop over repeat_times from entry i on; ok is FALSE once split<T> is
\* given sections that do not add up to the extent of the axis
RECURSIVE TileGradLoop(_, _, _, _)
TileGradLoop(result, out_grad_shape, repeat_times_data, i) ==
  IF i > Len(repeat_times_data) THEN [ok |-> TRUE, t |-> result]
  ELSE LET size == out_grad_shape[i] \div repeat_times_data[i]
           sections == [j \in 1..repeat_times_data[i] |-> size]
       IN IF size * repeat_times_data[i] # result.dims[i]
          THEN [ok |-> FALSE, t |-> result]
          ELSE TileGradLoop(SumSections(Split(result, sections, i - 1), Len(sections)),
                            out_grad_shape, repeat_times_data, i + 1)

\* [ok, t]: whether split<T> and reshape<T> accepted their arguments, and
\* the tensor handed to set_output
tile_grad_value(x, out_grad, repeat_times) ==
  LET l == TileGradLoop(out_grad, out_grad.dims, repeat_times, 1)
  IN IF l.ok /\ Numel(l.t.dims) = Numel(x.dims)
     THEN [ok |-> TRUE, t |-> Reshape(l.t, x.dims)]
     ELSE [ok |-> FALSE, t |-> l.t]

Value_tile_grad ==
  /\ pc = "idle"
  /\ \E d \in VShapes : \E repeat_times \in RepeatTimes :
     \E r \in SUBSET {"x_grad"} :
       \E out_grad \in GradTensors(TileDims(d, repeat_times)) :
         LET x == Full(d, 1)
             v == tile_grad_value(x, out_grad, repeat_times)
         IN /\ pc' = "done"
            /\ rule' = "tile_grad"
            /\ args' = [x |-> x, out_grad |-> out_grad, repeat_times |-> repeat_times]
            /\ slots' = {"x_grad"}
            /\ req' = r
            /\ trace' = <<>>
            /\ outcome' = IF r = {} \/ v.ok THEN "returned" ELSE "error"
            /\ res' = [s \in (IF v.ok THEN r ELSE {}) |-> v.t]

NextTile == Value_tile_grad

SpecTile == Init /\ [][NextTile]_vars

\* C17: for every x shape and every repeat_times vector, shorter than, as
\* long as or longer than x's rank, tile_grad writes an x_grad of x's dims
\* whose value at each position is the sum of out_grad over all tiled
\* copies of that position.
TileGradIsAdjoint ==
  (pc = "done" /\ rule = "tile_grad" /\ "x_grad" \in req) =>
    /\ outcome = "returned"
    /\ res["x_grad"].dims = args.x.dims
    /\ \A p \in 1..Numel(args.x.dims) :
         res["x_grad"].data[p] =
           SumSet(args.out_grad.data,
                  {k \in 1..Numel(args.out_grad.dims) :
                     TileSource(k, args.x.dims, args.repeat_times) = p})

\* what the model confirms of C17: the same statement for a repeat_times
\* vector at least as long as x's rank
TileGradIsAdjointFromFullLength ==
  (pc = "done" /\ rule = "tile_grad" /\ Len(args.repeat_times) >= Len(args.x.dims)) =>
    TileGradIsAdjoint

\* a repeat_times vector shorter than x's rank whose splits are accepted:
\* x of dims [2,1] tiled by [2]; out_grad [[5,8],[11,14]] is summed over its
\* rows to [16,22] where the sum over the copies is [13,25]
TileGradShortRepeatSilent ==
  /\ pc = "done"
  /\ rule = "tile_grad"
  /\ args.x.dims = <<2, 1>>
  /\ args.repeat_times = <<2>>
  /\ args.out_grad = [dims |-> <<2, 2>>, data |-> <<5, 8, 11, 14>>]
  /\ outcome = "returned"
  /\ "x_grad" \in req
  /\ res["x_grad"] = [dims |-> <<2, 1>>, data |-> <<16, 22>>]

(***************************************************************************)
(* slice_grad (lines 1111-1176) and pad_grad (lines 1033-1057) on values.  *)
(***************************************************************************)
PMaxPad == 1      \* entries of pad_grad's paddings are 0..PMaxPad

\* pad<T>(t, paddings, v): paddings[2i] elements of value v before and
\* paddings[2i+1] after axis i; ok is FALSE when paddings does not hold two
\* non-negative entries per axis of t
Pad(t, paddings, v) ==
  IF Len(paddings) # 2 * Len(t.dims) \/ \E i \in 1..Len(paddings) : paddings[i] < 0
  THEN [ok |-> FALSE, t |-> t]
  ELSE LET od == [j \in 1..Len(t.dims) |->
                    t.dims[j] + paddings[2 * j - 1] + paddings[2 * j]]
       IN [ok |-> TRUE,
           t |-> [dims |-> od,
                  data |-> [k \in 1..Numel(od) |->
                              LET c == Coord(k - 1, od)
                                  in == [j \in 1..Len(od) |-> c[j] - paddings[2 * j - 1]]
                              IN IF \A j \in 1..Len(od) : 0 <= in[j] /\ in[j] < t.dims[j]
                                 THEN At(t, in) ELSE v]]]

\* a start counted from the end when negative, then clamped at 0
SliceStart(start, extent) == Max2(IF start < 0 THEN start + extent ELSE start, 0)

\* origin_out_shape: 1 at every decreased axis, out_dims in order elsewhere
OriginOutShape(out_dims, decrease_axis) ==
  LET D == {decrease_axis[i] : i \in 1..Len(decrease_axis)}
      Kept(i) == Cardinality({j \in 0..(i - 1) : j \notin D})
  IN [i \in 1..(Len(out_dims) + Len(decrease_axis)) |->
        IF (i - 1) \in D THEN 1 ELSE out_dims[Kept(i - 1) + 1]]

\* paddings: offsets[i] before and (in_dims[i] - out_dims[i]) - offsets[i]
\* after axis i, offsets[axis] the start of the axis' window
SlicePaddings(in_dims, out_dims, axes, starts) ==
  LET rank == Len(in_dims)
      offset(i) == IF \E k \in 1..Len(axes) : axes[k] = i - 1
                   THEN LET k == CHOOSE k2 \in 1..Len(axes) : axes[k2] = i - 1
                        IN SliceStart(starts[k], in_dims[i])
                   ELSE 0
  IN [p \in 1..(2 * rank) |->
        LET i == (p + 1) \div 2
        IN IF p % 2 = 1 THEN offset(i) ELSE (in_dims[i] - out_dims[i]) - offset(i)]

\* [ok, t, padded]: whether pad<T> accepted its arguments, the tensor handed
\* to set_output, and the dims of the tensor handed to pad<T>
slice_grad_value(input, out_grad, axes, starts, decrease_axis) ==
  LET in_dims == input.dims
      decrease_size == Len(decrease_axis)
      some == decrease_size > 0 /\ decrease_size # Len(in_dims)
      origin_out_shape == IF some THEN OriginOutShape(out_grad.dims, decrease_axis)
                          ELSE <<>>
      out_dims == IF decrease_size > 0
                  THEN IF decrease_size = Len(in_dims)
                       THEN [i \in 1..decrease_size |-> 1]
                       ELSE origin_out_shape
                  ELSE out_grad.dims
      paddings == SlicePaddings(in_dims, out_dims, axes, starts)
      operand == IF some THEN Reshape(out_grad, origin_out_shape) ELSE out_grad
      out_tmp == Pad(operand, paddings, 0)
  IN [ok |-> out_tmp.ok, t |-> out_tmp.t, padded |-> operand.dims]

\* slice<T>(out_grad, axes, starts, ends, infer_flags, {}) over every axis
pad_grad_value(input, out_grad, paddings) ==
  LET rank == Len(input.dims)
      out_dims == out_grad.dims
      starts == [i \in 1..rank |-> paddings[2 * i - 1]]
      ends == [i \in 1..rank |-> out_dims[i] - paddings[2 * i]]
  IN Slice(out_grad, starts, ends)

\* the forward slice: the window [start, end) on every axis of axes, then
\* the axes of decrease_axis dropped
ForwardSlice(input, axes, starts, ends, decrease_axis) ==
  LET n == Len(input.dims)
      pos(i) == CHOOSE k \in 1..Len(axes) : axes[k] = i - 1
      sliced(i) == \E k \in 1..Len(axes) : axes[k] = i - 1
      s == [i \in 1..n |-> IF sliced(i) THEN SliceStart(starts[pos(i)], input.dims[i])
                           ELSE 0]
      e == [i \in 1..n |-> IF sliced(i) THEN ends[pos(i)] ELSE input.dims[i]]
      w == Slice(input, s, e)
      D == {decrease_axis[i] : i \in 1..Len(decrease_axis)}
  IN Reshape(w, ReducedDims(w.dims, D, FALSE))

\* the forward slices of a tensor of dims d: sorted non-negative axes,
\* starts written from the front or from the end, non-empty windows,
\* decreased axes among the sliced axes of extent 1
SliceCalls(d) ==
  LET n == Len(d)
  IN {c \in UNION {[axes : {SortedSeq(S)},
                    starts : [1..Cardinality(S) -> (-VMaxExtent)..(VMaxExtent - 1)],
                    ends : [1..Cardinality(S) -> 1..VMaxExtent],
                    decrease_axis : {SortedSeq(D) : D \in SUBSET S}] :
                      S \in SUBSET (0..(n - 1))} :
        /\ \A k \in 1..Len(c.axes) :
             LET ext == d[c.axes[k] + 1]
             IN /\ -ext <= c.starts[k] /\ c.starts[k] < ext
                /\ SliceStart(c.starts[k], ext) < c.ends[k] /\ c.ends[k] <= ext
        /\ \A i \in 1..Len(c.decrease_axis) :
             \E k \in 1..Len(c.axes) :
                /\ c.axes[k] = c.decrease_axis[i]
                /\ c.ends[k] - SliceStart(c.starts[k], d[c.axes[k] + 1]) = 1}

\* One call of slice_grad on the gradient of a forward slice.  A forward
\* slice that decreased every axis gives a rank-0 tensor, or a tensor of
\* dims [1] in a build that has no rank-0 tensors.
Value_slice_grad ==
  /\ pc = "idle"
  /\ \E d \in VShapes : \E c \in SliceCalls(d) : \E r \in SUBSET {"input_grad"} :
       LET input == Full(d, 1)
           od == ForwardSlice(input, c.axes, c.starts, c.ends, c.decrease_axis).dims
       IN \E gd \in {od} \cup (IF od = <<>> /\ Len(d) > 0 THEN {<<1>>} ELSE {}) :
          \E out_grad \in GradTensors(gd) :
            LET v == slice_grad_value(input, out_grad, c.axes, c.starts, c.decrease_axis)
            IN /\ pc' = "done"
               /\ rule' = "slice_grad"
               /\ args' = [input |-> input, out_grad |-> out_grad, axes |-> c.axes,
                           starts |-> c.starts, ends |-> c.ends,
                           decrease_axis |-> c.decrease_axis, padded |-> v.padded]
               /\ slots' = {"input_grad"}
               /\ req' = r
               /\ trace' = <<>>
               /\ outcome' = IF r = {} \/ v.ok THEN "returned" ELSE "error"
               /\ res' = [s \in (IF v.ok THEN r ELSE {}) |-> v.t]

\* One call of pad_grad on out_grad = pad(t, paddings).
Value_pad_grad ==
  /\ pc = "idle"
  /\ \E d \in VShapes : \E paddings \in [1..(2 * Len(d)) -> 0..PMaxPad] :
     \E r \in SUBSET {"input_grad"} : \E t \in GradTensors(d) :
       LET out_grad == Pad(t, paddings, 0).t
       IN Evaluate("pad_grad",
                   [input |-> t, out_grad |-> out_grad, paddings |-> paddings],
                   {"input_grad"}, r,
                   [s \in r |-> pad_grad_value(t, out_grad, paddings)])

NextSlice == Value_slice_grad \/ Value_pad_grad

SpecSlice == Init /\ [][NextSlice]_vars

\* the position of the input that position c of the window came from
WindowOrigin(c, a) ==
  [j \in 1..Len(a.input.dims) |->
     c[j] + (IF \E k \in 1..Len(a.axes) : a.axes[k] = j - 1
             THEN LET k == CHOOSE k2 \in 1..Len(a.axes) : a.axes[k2] = j - 1
                  IN SliceStart(a.starts[k], a.input.dims[j])
             ELSE 0)]

\* C19: for every input shape, slice axes/starts and decrease_axis set
\* (none, some or all axes decreased), slice_grad hands pad a tensor with
\* extent 1 at each decreased axis and out_grad's extents in order elsewhere,
\* and writes a gradient of the input's dims holding out_grad's values at
\* the sliced window and zero everywhere else.
SliceGradPadsBack ==
  (pc = "done" /\ rule = "slice_grad" /\ "input_grad" \in req) =>
    LET D == {args.decrease_axis[i] : i \in 1..Len(args.decrease_axis)}
        n == Len(args.input.dims)
        wd == args.padded
        g == res["input_grad"]
    IN /\ outcome = "returned"
       /\ Len(wd) = n
       /\ \A i \in 1..n : (i - 1) \in D => wd[i] = 1
       /\ ReducedDims(wd, D, FALSE) = args.out_grad.dims
       /\ g.dims = args.input.dims
       /\ \A k \in 1..Numel(g.dims) :
            LET c == Coord(k - 1, g.dims)
                o == WindowOrigin([j \in 1..n |-> 0], args)
                in == [j \in 1..n |-> c[j] - o[j]]
            IN g.data[k] = IF \A j \in 1..n : 0 <= in[j] /\ in[j] < wd[j]
                           THEN args.out_grad.data[FlatFrom(in, wd, 1) + 1]
                           ELSE 0

\* what the model confirms of C19: the same statement when not every axis of
\* the input was decreased
SliceGradPadsBackUnlessAllDecreased ==
  (pc = "done" /\ rule = "slice_grad"
     /\ (Len(args.decrease_axis) = 0 \/ Len(args.decrease_axis) < Len(args.input.dims))) =>
    SliceGradPadsBack

\* the failing call: a [2,2] input sliced to one element with both axes
\* decreased; out_grad, of rank 0 or of dims [1], reaches pad<T> with four
\* paddings and nothing is written
SliceGradAllDecreasedRejected ==
  /\ pc = "done"
  /\ rule = "slice_grad"
  /\ args.input.dims = <<2, 2>>
  /\ args.axes = <<0, 1>>
  /\ args.starts = <<0, 1>>
  /\ args.decrease_axis = <<0, 1>>
  /\ args.out_grad.dims = <<1>>
  /\ args.padded = <<1>>
  /\ "input_grad" \in req
  /\ outcome = "error"

\* C20: pad_grad applied to pad(t, paddings) slices every axis i from
\* paddings[2i] to out_dims[i] - paddings[2i+1] and returns t, for every
\* shape of t and non-negative paddings; slice_grad applied to the gradient
\* of a forward slice writes a tensor whose forward slice is out_grad again.
PadSliceMutualInverses ==
  /\ (pc = "done" /\ rule = "pad_grad" /\ "input_grad" \in req) =>
       res["input_grad"] = args.input
  /\ (pc = "done" /\ rule = "slice_grad" /\ "input_grad" \in req) =>
       /\ outcome = "returned"
       /\ LET back == ForwardSlice(res["input_grad"], args.axes, args.starts, args.ends,
                                   args.decrease_axis)
          IN /\ back.data = args.out_grad.data
             /\ back.dims = args.out_grad.dims \/ Numel(back.dims) = 1

\* what the model confirms of C20: the same statement when not every axis of
\* the input was decreased
PadSliceMutualInversesUnlessAllDecreased ==
  (rule = "slice_grad" =>
     (Len(args.decrease_axis) = 0 \/ Len(args.decrease_axis) < Len(args.input.dims))) =>
    PadSliceMutualInverses

\* pad_grad has returned the tensor the forward pad was given
PadGradReturnsInput ==
  /\ pc = "done"
  /\ rule = "pad_grad"
  /\ args.input = [dims |-> <<2>>, data |-> <<5, 8>>]
  /\ args.paddings = <<1, 0>>
  /\ args.out_grad.data = <<0, 5, 8>>
  /\ "input_grad" \in req
  /\ res["input_grad"] = args.input

(***************************************************************************)
(* Two invocations running concurrently.  Each thread runs roll_grad       *)
(* (lines 254-269) or sum_grad (lines 119-165) statement by statement.     *)
(* args holds the objects the callers pass by reference: the tensors and   *)
(* the attributes; both threads are handed the same objects.  trace[t]     *)
(* holds the local variables of thread t, slots[t] the tensor behind the   *)
(* x_grad pointer of thread t, req the threads whose pointer is non-null,  *)
(* res the objects as they were when the invocations started.              *)
(***************************************************************************)
CMaxShift == 2    \* roll shifts are 1..CMaxShift

Threads == {1, 2}

\* Tensor(): the default-constructed tensor
EmptyTensor == [dims |-> <<0>>, data |-> <<>>]

\* roll<T>(t, shifts, axis): the elements move shifts[i] places up along
\* axis[i], wrapping around
Roll(t, shifts, axis) ==
  LET n == Len(t.dims)
      ax(i) == IF axis[i] < 0 THEN axis[i] + n ELSE axis[i]
      by(j) == IF \E i \in 1..Len(axis) : ax(i) = j - 1
               THEN shifts[CHOOSE i \in 1..Len(axis) : ax(i) = j - 1]
               ELSE 0
  IN [dims |-> t.dims,
      data |-> [k \in 1..Numel(t.dims) |->
                  LET c == Coord(k - 1, t.dims)
                  IN At(t, [j \in 1..n |-> (c[j] - by(j)) % t.dims[j]])]]

\* roll_grad as one step
roll_grad_value(out_grad, shifts, axis) ==
  Roll(out_grad, [i \in 1..Len(shifts) |-> 0 - shifts[i]], axis)

\* the objects two invocations are handed: one x, and for each rule its
\* out_grad and attributes
ConcInputs ==
  UNION {
    {[x |-> Full(d, 1), roll_out_grad |-> rg, shifts |-> sh, roll_axis |-> ra,
      sum_out_grad |-> sg, sum_axis |-> sa, keepdim |-> kd] :
        rg \in GradTensors(d),
        sh \in [1..Len(ra) -> 1..CMaxShift],
        sg \in GradTensors(ReducedDims(d, ReducedAxes(sa, Len(d)), kd))} :
      d \in {<<3>>, <<2, 2>>},
      ra \in {<<-1>>, <<0, 1>>, <<0>>},
      sa \in {<<>>, <<-1>>, <<0>>},
      kd \in BOOLEAN}

\* no local variable is set yet
NoLocals == [shifts_ |-> <<>>, axis_ |-> <<>>, i |-> 0, tmp |-> EmptyTensor]

InitConc ==
  /\ pc = [t \in Threads |-> "entry"]
  /\ rule \in [Threads -> {"roll_grad", "sum_grad"}]
  /\ args \in {h \in ConcInputs :
                 \A t \in Threads : rule[t] = "roll_grad" =>
                    \A i \in 1..Len(h.roll_axis) : h.roll_axis[i] < Len(h.x.dims)}
  /\ slots = [t \in Threads |-> EmptyTensor]
  /\ req \in SUBSET Threads
  /\ trace = [t \in Threads |-> NoLocals]
  /\ outcome = "concurrent"
  /\ res = args

\* Faulty variant of NegateShift: shifts_ is a reference to the attribute,
\* the negation is stored into the caller's shifts.
NegateShiftInPlace(objects, locals) ==
  LET i == locals.i + 1
      negated == [objects.shifts EXCEPT ![i] = 0 - objects.shifts[i]]
  IN [objects |-> [objects EXCEPT !.shifts = negated],
      locals |-> [locals EXCEPT !.shifts_ = negated, !.i = i]]

\* shifts_[i] = 0 - shifts_[i]: shifts_ is the thread's copy
NegateShift(objects, locals) ==
  LET i == locals.i + 1
  IN [objects |-> objects,
      locals |-> [locals EXCEPT !.shifts_[i] = 0 - locals.shifts_[i], !.i = i]]

\* a step of thread t: the objects and the locals after it, and the next pc
Step(t, objects, locals, next) ==
  /\ args' = objects
  /\ trace' = [trace EXCEPT ![t] = locals]
  /\ pc' = [pc EXCEPT ![t] = next]
  /\ UNCHANGED <<rule, slots, req, outcome, res>>

\* if (x_grad) { auto shifts_ = shifts.GetData(); int64_t nums = ...
Roll_entry ==
  \E t \in Threads :
    /\ pc[t] = "entry" /\ rule[t] = "roll_grad"
    /\ IF t \in req
       THEN Step(t, args, [trace[t] EXCEPT !.shifts_ = args.shifts, !.i = 0], "roll_loop")
       ELSE Step(t, args, trace[t], "done")

\* one iteration of the negation loop
Roll_negate ==
  \E t \in Threads :
    /\ pc[t] = "roll_loop"
    /\ trace[t].i < Len(trace[t].shifts_)
    /\ LET n == NegateShift(args, trace[t])
       IN Step(t, n.objects, n.locals, "roll_loop")

\* auto x_grad_output = roll<T>(out_grad, shifts_, axis)
Roll_call ==
  \E t \in Threads :
    /\ pc[t] = "roll_loop"
    /\ trace[t].i >= Len(trace[t].shifts_)
    /\ Step(t, args,
            [trace[t] EXCEPT !.tmp = Roll(args.roll_out_grad, trace[t].shifts_,
                                          args.roll_axis)],
            "set_output")

\* if (!x_grad) return; x_dim, reduce_all, and the branch on x_dim_size and
\* keepdim up to the copy axis_ = axis.GetData()
Sum_entry ==
  \E t \in Threads :
    /\ pc[t] = "entry" /\ rule[t] = "sum_grad"
    /\ IF t \notin req THEN Step(t, args, trace[t], "done")
       ELSE LET x_dim_size == Len(args.x.dims)
                reduce_all == ReduceAll(FALSE, Len(args.sum_axis), x_dim_size)
            IN IF x_dim_size = 1 \/ args.keepdim
               THEN Step(t, args, [trace[t] EXCEPT !.tmp = args.sum_out_grad], "sum_expand")
               ELSE IF reduce_all
               THEN Step(t, args,
                         [trace[t] EXCEPT !.axis_ = [i \in 1..x_dim_size |-> i - 1]],
                         "sum_reshape")
               ELSE Step(t, args, [trace[t] EXCEPT !.axis_ = args.sum_axis, !.i = 0],
                         "sum_loop")

\* if (axis[i] < 0) axis_[i] = axis[i] + x_dim_size
Sum_normalize ==
  \E t \in Threads :
    /\ pc[t] = "sum_loop"
    /\ LET l == trace[t]
           i == l.i + 1
       IN IF l.i < Len(args.sum_axis)
          THEN Step(t, args,
                    [l EXCEPT !.i = i,
                              !.axis_[i] = IF args.sum_axis[i] < 0
                                           THEN args.sum_axis[i] + Len(args.x.dims)
                                           ELSE l.axis_[i]],
                    "sum_loop")
          ELSE Step(t, args, l, "sum_reshape")

\* out_grad_ = reshape<T>(out_grad, get_unsqueeze_dims(out_grad, axis_))
Sum_reshape ==
  \E t \in Threads :
    /\ pc[t] = "sum_reshape"
    /\ Step(t, args,
            [trace[t] EXCEPT !.tmp = Reshape(args.sum_out_grad,
                                             get_unsqueeze_dims(args.sum_out_grad,
                                                                trace[t].axis_))],
            "sum_expand")

\* x_grad_tmp = expand<T>(., IntArray(x_dim))
Sum_expand ==
  \E t \in Threads :
    /\ pc[t] = "sum_expand"
    /\ Step(t, args, [trace[t] EXCEPT !.tmp = Expand(trace[t].tmp, args.x.dims)],
            "set_output")

\* set_output<T>(., x_grad): the thread's own slot receives the tensor
Set_output ==
  \E t \in Threads :
    /\ pc[t] = "set_output"
    /\ slots' = [slots EXCEPT ![t] = trace[t].tmp]
    /\ pc' = [pc EXCEPT ![t] = "done"]
    /\ UNCHANGED <<rule, args, req, trace, outcome, res>>

NextConc ==
  \/ Roll_entry \/ Roll_negate \/ Roll_call
  \/ Sum_entry \/ Sum_normalize \/ Sum_reshape \/ Sum_expand
  \/ Set_output

SpecConc == InitConc /\ [][NextConc]_vars

\* what the invocation of thread t writes when it runs alone on objects h
SequentialValue(t, h) ==
  IF t \notin req THEN EmptyTensor
  ELSE IF rule[t] = "roll_grad"
  THEN roll_grad_value(h.roll_out_grad, h.shifts, h.roll_axis)
  ELSE sum_grad_value(h.x, h.sum_out_grad, h.sum_axis, h.keepdim, FALSE)

\* C16: two invocations (roll_grad or sum_grad each) run concurrently on the
\* same input objects with distinct output slots: under every interleaving
\* of their statements no input tensor and no attribute is ever changed, a
\* slot is only changed by its own invocation, and each finished invocation
\* has written the value it writes when run alone.
ConcurrentAsSequential ==
  outcome = "concurrent" =>
    /\ args = res
    /\ \A t \in Threads :
         /\ pc[t] = "done" => slots[t] = SequentialValue(t, res)
         /\ pc[t] \notin {"done"} => slots[t] = EmptyTensor

\* C16 witness: two roll_grad invocations handed the same shifts object;
\* thread 1 has written its slot, thread 2 is about to; each has negated its
\* own copy and computed the gradient rolled back by one, and the caller's
\* shifts is still [1].
ConcurrentAsSequentialWitness ==
  /\ outcome = "concurrent"
  /\ rule = [t \in Threads |-> "roll_grad"]
  /\ req = Threads
  /\ args.x.dims = <<3>>
  /\ args.shifts = <<1>>
  /\ args.roll_axis = <<0>>
  /\ args.roll_out_grad.data = <<5, 8, 11>>
  /\ pc[1] = "done" /\ slots[1].data = <<8, 11, 5>>
  /\ pc[2] = "set_output" /\ trace[2].tmp.data = <<8, 11, 5>>
  /\ \A t \in Threads : trace[t].shifts_ = <<-1>>

(***************************************************************************)
(* gather_grad on values (lines 883-927).  index is a vector of positions  *)
(* along the gather axis.                                                  *)
(***************************************************************************)
GMaxIndex == 2    \* index vectors hold 1..GMaxIndex entries

\* tmp_perm: axis_value first, then every i in 0..rank-1 with i != axis_value
GatherPerm(axis_value, rank) ==
  <<axis_value>> \o SortedSeq({i \in 0..(rank - 1) : i # axis_value})

\* transpose<T>(t, perm) of a tensor of rank > 0; ok is FALSE when perm does
\* not hold one entry per axis of t
TransposeChecked(t, perm) ==
  IF Len(t.dims) = 0 THEN [ok |-> TRUE, t |-> t]
  ELSE IF Len(perm) # Len(t.dims) THEN [ok |-> FALSE, t |-> t]
  ELSE [ok |-> TRUE, t |-> Transpose(t, perm)]

\* scatter<T>(x, index, updates, false): the rows of x named by index are
\* replaced by the sum of the rows of updates sent to them
Scatter(x, index, updates) ==
  LET row == Numel(x.dims) \div x.dims[1]
  IN [dims |-> x.dims,
      data |-> [k \in 1..Numel(x.dims) |->
                  LET j == (k - 1) \div row
                      o == (k - 1) % row
                      hits == {i \in 1..Len(index) : index[i] = j}
                  IN IF hits = {} THEN x.data[k]
                     ELSE SumSet([i \in 1..Len(index) |-> updates.data[(i - 1) * row + o + 1]],
                                 hits)]]

\* [ok, t, tmp_perm, reverse_perm]: whether transpose<T> accepted its
\* arguments, the tensor handed to set_output, and the two perm arrays
gather_grad_value(x, index, out_grad, axis) ==
  LET zero_tensor == Full(x.dims, 0)
      axis_value == axis
      tmp_perm == GatherPerm(axis_value, Len(x.dims))
      rp == reverse_perm(tmp_perm)
      tmp_zero_x_grad == TransposeChecked(zero_tensor, tmp_perm)
      tmp_out_grad == TransposeChecked(out_grad, tmp_perm)
  IN IF ~(tmp_zero_x_grad.ok /\ tmp_out_grad.ok)
     THEN [ok |-> FALSE, t |-> zero_tensor, tmp_perm |-> tmp_perm, reverse_perm |-> rp]
     ELSE LET tmp_grad_x == Scatter(tmp_zero_x_grad.t, index, tmp_out_grad.t)
              back == TransposeChecked(tmp_grad_x, rp)
          IN [ok |-> back.ok, t |-> back.t, tmp_perm |-> tmp_perm, reverse_perm |-> rp]

\* One call of gather_grad on the gradient of gather(x, index, axis), x of
\* rank >= 1 and axis in [-rank, rank).  The rule has no slot guard: a null
\* grad_x is the undefined behaviour of the trace layer and is not drawn.
Value_gather_grad ==
  /\ pc = "idle"
  /\ \E d \in TShapes : \E axis \in (-Len(d))..(Len(d) - 1) :
       LET ax == IF axis < 0 THEN axis + Len(d) ELSE axis
       IN \E index \in UNION {[1..m -> 0..(d[ax + 1] - 1)] : m \in 1..GMaxIndex} :
            LET od == [j \in 1..Len(d) |-> IF j = ax + 1 THEN Len(index) ELSE d[j]]
            IN \E out_grad \in GradTensors(od) :
                 LET x == Full(d, 1)
                     v == gather_grad_value(x, index, out_grad, axis)
                 IN /\ pc' = "done"
                    /\ rule' = "gather_grad"
                    /\ args' = [x |-> x, index |-> index, out_grad |-> out_grad,
                                axis |-> axis, tmp_perm |-> v.tmp_perm,
                                reverse_perm |-> v.reverse_perm]
                    /\ slots' = {"grad_x"}
                    /\ req' = {"grad_x"}
                    /\ trace' = <<>>
                    /\ outcome' = IF v.ok THEN "returned" ELSE "error"
                    /\ res' = [s \in (IF v.ok THEN {"grad_x"} ELSE {}) |-> v.t]

NextGather == Value_gather_grad

SpecGather == Init /\ [][NextGather]_vars

\* C21: for every x of rank r >= 1 and every gather axis in [-r, r),
\* tmp_perm is a permutation of 0..r-1 of length r with the target axis
\* (axis, or axis + r when negative) first and the other axes in increasing
\* order, reverse_perm is its inverse, and the gradient written has x's dims
\* and holds at every position the sum of the out_grad entries gathered from
\* it.
GatherPermInverted ==
  (pc = "done" /\ rule = "gather_grad") =>
    LET d == args.x.dims
        r == Len(d)
        ax == IF args.axis < 0 THEN args.axis + r ELSE args.axis
        p == args.tmp_perm
        q == args.reverse_perm
    IN /\ Len(p) = r
       /\ {p[i] : i \in 1..Len(p)} = 0..(r - 1)
       /\ p[1] = ax
       /\ \A i, j \in 2..Len(p) : i < j => p[i] < p[j]
       /\ Len(q) = r
       /\ \A i \in 1..r : q[p[i] + 1] = i - 1
       /\ outcome = "returned"
       /\ res["grad_x"].dims = d
       /\ \A k \in 1..Numel(d) :
            LET c == Coord(k - 1, d)
            IN res["grad_x"].data[k] =
                 SumSet([i \in 1..Len(args.index) |->
                           At(args.out_grad, WithAxis(c, ax, i - 1))],
                        {i \in 1..Len(args.index) : args.index[i] = c[ax + 1]})

\* what the model confirms of C21: the same statement for a non-negative
\* axis
GatherPermInvertedFromZero ==
  (pc = "done" /\ rule = "gather_grad" /\ args.axis >= 0) => GatherPermInverted

\* the failing call: x of dims [2,2] gathered along axis -1; tmp_perm is
\* [-1,0,1], one entry too long, and transpose<T> rejects it
GatherNegativeAxisRejected ==
  /\ pc = "done"
  /\ rule = "gather_grad"
  /\ args.x.dims = <<2, 2>>
  /\ args.axis = -1
  /\ args.tmp_perm = <<-1, 0, 1>>
  /\ args.reverse_perm = <<1, 2, 0>>
  /\ outcome = "error"

(***************************************************************************)
(* softmax_grad on values (lines 798-823).  out and out_grad hold integers *)
(* of the same dims.                                                       *)
(***************************************************************************)
\* Faulty variant of SoftmaxAxis: a negative axis is handed to sum as it is.
SoftmaxAxisNotNormalized(axis, rank) == axis

\* the axis handed to sum<T>: axis, or out.dims().size() + axis when negative
SoftmaxAxis(axis, rank) == IF axis >= 0 THEN axis ELSE rank + axis

\* a - b elementwise, two tensors of the same dims
Subtract(a, b) == [dims |-> a.dims, data |-> [k \in 1..Numel(a.dims) |-> a.data[k] - b.data[k]]]

\* [t, reduced]: the tensor handed to set_output and the axes handed to sum
softmax_grad_value(out, out_grad, axis) ==
  IF Len(out_grad.dims) > 0
  THEN LET new_out_grad == Multiply(out_grad, out)
           reduced == <<SoftmaxAxis(axis, Len(out.dims))>>
       IN [t |-> Subtract(new_out_grad, Multiply(out, Sum(new_out_grad, reduced, TRUE))),
           reduced |-> reduced]
  ELSE [t |-> [dims |-> out_grad.dims,
               data |-> [k \in 1..Numel(out_grad.dims) |-> out_grad.data[k] * 0]],
        reduced |-> <<>>]

\* the axis arguments drawn for rank n: [-n, n), and -1, 0 for rank 0
SoftmaxAxes(n) == IF n = 0 THEN {-1, 0} ELSE (-n)..(n - 1)

Value_softmax_grad ==
  /\ pc = "idle"
  /\ \E d \in VShapes : \E out \in Tensors(d, XVals) : \E out_grad \in GradTensors(d) :
     \E axis \in SoftmaxAxes(Len(d)) : \E r \in SUBSET {"x_grad"} :
       LET v == softmax_grad_value(out, out_grad, axis)
       IN Evaluate("softmax_grad",
                   [out |-> out, out_grad |-> out_grad, axis |-> axis,
                    reduced |-> v.reduced],
                   {"x_grad"}, r, [s \in r |-> v.t])

NextSoftmax == Value_softmax_grad

SpecSoftmax == Init /\ [][NextSoftmax]_vars

\* C22: on a rank-0 input softmax_grad writes an all-zero gradient whatever
\* the axis; on rank r >= 1 it reduces over exactly one axis, axis when
\* axis >= 0 and axis + r when axis < 0, which lies in [0, r), the reduced
\* axis is kept as size 1, and the gradient has out's dims: at every position
\* out * (out_grad - the sum of out_grad * out along that axis).
SoftmaxGradOneAxis ==
  (pc = "done" /\ rule = "softmax_grad" /\ "x_grad" \in req) =>
    LET out == args.out
        d == out.dims
        r == Len(d)
        g == res["x_grad"]
    IN /\ g.dims = d
       /\ IF r = 0
          THEN args.reduced = <<>> /\ g.data = <<0>>
          ELSE LET ax == IF args.axis >= 0 THEN args.axis ELSE args.axis + r
                   prod == [k \in 1..Numel(d) |-> args.out_grad.data[k] * out.data[k]]
               IN /\ args.reduced = <<ax>>
                  /\ 0 <= ax /\ ax < r
                  /\ Sum(out, args.reduced, TRUE).dims = WithAxis(d, ax, 1)
                  /\ \A k \in 1..Numel(d) :
                       LET c == Coord(k - 1, d)
                           line == {k2 \in 1..Numel(d) :
                                      \A j \in 1..r : j # ax + 1 => Coord(k2 - 1, d)[j] = c[j]}
                       IN g.data[k] = out.data[k] * (args.out_grad.data[k] - SumSet(prod, line))

\* C22 witness: a [2,2] input with axis -1: sums run along axis 1.
SoftmaxGradOneAxisWitness ==
  /\ pc = "done"
  /\ rule = "softmax_grad"
  /\ "x_grad" \in req
  /\ args.out = [dims |-> <<2, 2>>, data |-> <<1, 3, 3, 1>>]
  /\ args.out_grad.data = <<5, 8, 11, 14>>
  /\ args.axis = -1
  /\ args.reduced = <<1>>
  /\ res["x_grad"].data = <<-24, -63, -108, -33>>

\* a rank-0 call with axis 0 has written zero
SoftmaxGradZeroRank ==
  /\ pc = "done"
  /\ rule = "softmax_grad"
  /\ "x_grad" \in req
  /\ args.out.dims = <<>>
  /\ args.axis = 0
  /\ outcome = "returned"
  /\ res["x_grad"] = [dims |-> <<>>, data |-> <<0>>]

\* the gradient the rule of the current call writes when it is handed
\* reduce_all = b and the call's other arguments
ReduceGradWith(b) ==
  IF rule = "sum_grad"
  THEN sum_grad_value(args.x, args.out_grad, args.axis, args.keepdim, b)
  ELSE IF rule = "prod_grad"
  THEN prod_grad_value(args.x, args.out, args.out_grad, args.axis, args.keepdim, b)
  ELSE max_grad_value(args.x, args.out, args.out_grad, args.axis, args.keepdim, b)

\* C23: in sum_grad, prod_grad and max_grad the reduction is treated as
\* all-axes exactly when the axis list is empty or as long as x's rank,
\* whatever reduce_all was passed, and the gradient written is the one the
\* rule writes for the same x, out_grad, axis and keepdim with the other
\* value of reduce_all.
ReduceAllIgnored ==
  (pc = "done" /\ rule \in {"sum_grad", "prod_grad", "max_grad"}) =>
    /\ ReduceAll(args.reduce_all, Len(args.axis), Len(args.x.dims))
         = (Len(args.axis) = 0 \/ Len(args.axis) = Len(args.x.dims))
    /\ "x_grad" \in req =>
         /\ res["x_grad"] = ReduceGradWith(~args.reduce_all)
         /\ res["x_grad"] = ReduceGradWith(args.reduce_all)

\* C23 witness: prod_grad of a [2,2] tensor over axis 1 without keepdim is
\* called with reduce_all = true and still writes the per-row gradient.
ReduceAllIgnoredWitness ==
  /\ pc = "done"
  /\ rule = "prod_grad"
  /\ "x_grad" \in req
  /\ args.reduce_all
  /\ args.x = [dims |-> <<2, 2>>, data |-> <<1, 3, 3, 3>>]
  /\ args.axis = <<1>>
  /\ ~args.keepdim
  /\ args.out_grad.data = <<5, 8>>
  /\ res["x_grad"].data = <<<<15, 1>>, <<5, 1>>, <<24, 1>>, <<24, 1>>>>

(***************************************************************************)
(* slice_grad on forward slices with any start the forward slice accepts:  *)
(* a start below -extent is clamped to 0 and a start at or beyond the      *)
(* extent is clamped to the extent, which leaves an empty window.          *)
(***************************************************************************)
\* extent of the forward slice's window on an axis of extent ext: start is
\* counted from the end when negative and clamped into [0, ext], end is
\* clamped to ext
ForwardWindow(start, end, ext) ==
  LET s == IF SliceStart(start, ext) > ext THEN ext ELSE SliceStart(start, ext)
      e == IF end > ext THEN ext ELSE end
  IN e - s

\* what the forward slice may do with an axis of extent ext: leave it
\* (<<FALSE, 0, ext>>) or window it (<<TRUE, start, end>>), start in
\* [-ext-1, ext+1], end in [ext-1, ext+1], end not before start after
\* clamping
AxisChoices(ext) ==
  {<<FALSE, 0, ext>>}
  \cup {w \in {TRUE} \X ((-ext - 1)..(ext + 1)) \X ((ext - 1)..(ext + 1)) :
          ForwardWindow(w[2], w[3], ext) >= 0}

\* one choice per axis j, j + 1, ... of d
RECURSIVE WindowChoices(_, _)
WindowChoices(d, j) ==
  IF j > Len(d) THEN {<<>>}
  ELSE {<<w>> \o rest : w \in AxisChoices(d[j]), rest \in WindowChoices(d, j + 1)}

\* forward slices of a tensor of dims d without decreased axes: the sliced
\* axes in increasing order with their starts and ends
SliceCallsAnyStart(d) ==
  {LET axes == SortedSeq({k \in 0..(Len(d) - 1) : w[k + 1][1]})
   IN [axes |-> axes,
       starts |-> [k \in 1..Len(axes) |-> w[axes[k] + 1][2]],
       ends |-> [k \in 1..Len(axes) |-> w[axes[k] + 1][3]]] :
     w \in WindowChoices(d, 1)}

Value_slice_grad_any_start ==
  /\ pc = "idle"
  /\ \E d \in VShapes : \E c \in SliceCallsAnyStart(d) : \E r \in SUBSET {"input_grad"} :
       LET input == Full(d, 1)
           od == [j \in 1..Len(d) |->
                    IF \E k \in 1..Len(c.axes) : c.axes[k] = j - 1
                    THEN LET k == CHOOSE k2 \in 1..Len(c.axes) : c.axes[k2] = j - 1
                         IN ForwardWindow(c.starts[k], c.ends[k], d[j])
                    ELSE d[j]]
       IN \E out_grad \in GradTensors(od) :
            LET v == slice_grad_value(input, out_grad, c.axes, c.starts, <<>>)
            IN /\ pc' = "done"
               /\ rule' = "slice_grad"
               /\ args' = [input |-> input, out_grad |-> out_grad, axes |-> c.axes,
                           starts |-> c.starts, ends |-> c.ends, decrease_axis |-> <<>>,
                           padded |-> v.padded,
                           paddings |-> SlicePaddings(d, out_grad.dims, c.axes, c.starts)]
               /\ slots' = {"input_grad"}
               /\ req' = r
               /\ trace' = <<>>
               /\ outcome' = IF r = {} \/ v.ok THEN "returned" ELSE "error"
               /\ res' = [s \in (IF v.ok THEN r ELSE {}) |-> v.t]

NextSliceStarts == Value_slice_grad_any_start

SpecSliceStarts == Init /\ [][NextSliceStarts]_vars

\* C24: in slice_grad, for every axis i the padding before and the padding
\* after are both non-negative and add up with out_dims[i] to in_dims[i],
\* for every start the forward slice accepts, negative starts and starts at
\* or beyond the extent included.
SlicePaddingsNonNegative ==
  (pc = "done" /\ rule = "slice_grad" /\ "input_grad" \in req) =>
    \A i \in 1..Len(args.input.dims) :
       /\ args.paddings[2 * i - 1] >= 0
       /\ args.paddings[2 * i] >= 0
       /\ args.paddings[2 * i - 1] + args.out_grad.dims[i] + args.paddings[2 * i]
            = args.input.dims[i]

\* what the model confirms of C24: the same statement when no start is
\* beyond the extent of its axis
SlicePaddingsNonNegativeUpToExtent ==
  (pc = "done" /\ rule = "slice_grad"
     /\ \A k \in 1..Len(args.axes) :
          args.starts[k] <= args.input.dims[args.axes[k] + 1]) =>
    SlicePaddingsNonNegative

\* the failing call: a [2] input sliced from start 3; the padding after the
\* window is -1 and pad<T> rejects it
SlicePaddingNegative ==
  /\ pc = "done"
  /\ rule = "slice_grad"
  /\ args.input.dims = <<2>>
  /\ args.axes = <<0>>
  /\ args.starts = <<3>>
  /\ args.out_grad.dims = <<0>>
  /\ args.paddings = <<3, -1>>
  /\ "input_grad" \in req
  /\ outcome = "error"

====
